---------------------------- MODULE Spec2Model ----------------------------
(***************************************************************************)
(* A model of instancing-229.cpp (class VulkanExample): instanced asteroid *)
(* field rendered through a multisample-resolve render pass.              *)
(*                                                                         *)
(* Several specifications share this module:                               *)
(*   SpecGen    prepareInstanceData: the placement loop and the upload     *)
(*   Spec       prepare: sample count, render pass, frame buffers and the  *)
(*              recorded command buffers                                   *)
(*   SpecFrame  the frame loop: render, viewChanged, updateUniformBuffer   *)
(*   SpecLight  frames of a constant frame time: the light intensity       *)
(*   SpecSetup  prepare() call by call with the result of every call, and  *)
(*              the destructor                                             *)
(* Each one initialises the variables of the others to their               *)
(* constructed values and leaves them unchanged.                           *)
(***************************************************************************)
EXTENDS Integers, Sequences, FiniteSets, TLC

VARIABLES
    \* ---- prepareInstanceData
    genPc,              \* position inside prepareInstanceData
    instanceCount,      \* INSTANCE_COUNT as requested for this run
    rings,              \* std::vector<glm::vec2> rings: <<inner, outer>> pairs
    layerCount,         \* textures.rocksTex2DArr.layerCount
    instIdInChunk,      \* outer loop counter
    ringId,             \* inner loop counter
    instanceData,       \* std::vector<InstanceData>
    writes,             \* history: how often each flat index was assigned
    instanceBuffer,     \* struct InstanceBuffer (size, buffer, memory)
    stagingBuffer,      \* the local staging buffer/memory pair
    copyRegion,         \* VkBufferCopy handed to vkCmdCopyBuffer
    copyCmd,            \* the one-shot command buffer copyCmd: where it is
                        \* between recording and completion on the GPU
    deviceLocal,        \* history: what the device-local instance buffer
                        \* holds and how often it was written
    \* ---- prepare
    prepPc,             \* position inside prepare()
    framebufferColorSampleCounts,   \* deviceProperties.limits
    framebufferDepthSampleCounts,   \* deviceProperties.limits
    sampleCount,        \* VkSampleCountFlagBits sampleCount
    swapChainImageCount,\* swapChain.imageCount
    extent,             \* <<width, height>> of the surface
    renderPass,         \* what vkCreateRenderPass was given
    renderPassCreated,  \* the renderPass handle is live
    multisampleTarget,  \* the global multisampleTarget
    frameBuffers,       \* std::vector<VkFramebuffer>: the attachments of each
    drawCmdBuffers,     \* the commands recorded in each draw command buffer
    builds,             \* history: what each call of buildCommandBuffers
                        \* read and what it left recorded
    \* ---- the frame loop
    prepared,           \* bool prepared
    paused,             \* bool paused
    frameTimer,         \* float frameTimer, in milliseconds
    camera,             \* zoom, rotation, cameraPos (and the aspect ratio)
    uboVS,              \* struct UBOVS
    light,              \* the function-local statics pi and vi of updateLight
    mapped,             \* what uniformBuffers.scene.mapped holds
    frame,              \* history: the current frame and what happened in it
    \* ---- prepare() call by call, and the destructor
    setupPc,            \* index of the next step of prepare()
    setupStatus,        \* "running", "aborted", "prepared" or "destroyed"
    features,           \* vulkanDevice->features: the supported compression
                        \* families
    live,               \* the GPU objects created and not destroyed
    texFormat,          \* local texFormat of loadAssets (its family)
    textures,           \* history: the textures loaded, with their format
    pipelineState,      \* the fixed-function state preparePipelines shares
                        \* between its pipelineCreateInfo uses
    pipelines,          \* history: each pipeline created, with the state it
                        \* was created from
    descriptorPool,     \* the pool's sizes and what was allocated from it
    failure             \* history: the first call that returned an error
                        \* and how many steps ran after it

genVars == <<genPc, instanceCount, rings, layerCount, instIdInChunk, ringId,
             instanceData, writes, instanceBuffer, stagingBuffer, copyRegion,
             copyCmd, deviceLocal>>

prepVars == <<prepPc, framebufferColorSampleCounts,
              framebufferDepthSampleCounts, sampleCount, swapChainImageCount,
              extent, renderPass, renderPassCreated, multisampleTarget,
              frameBuffers, drawCmdBuffers, builds>>

frameVars == <<prepared, paused, frameTimer, camera, uboVS, light, mapped,
               frame>>

setupVars == <<setupPc, setupStatus, features, live, texFormat, textures,
               pipelineState, pipelines, descriptorPool, failure>>

vars == <<genVars, prepVars, frameVars, setupVars>>

---------------------------------------------------------------------------
(***************************************************************************)
(* Bounds of the model.                                                    *)
(***************************************************************************)
\* largest instance count a run of the placement loop is started with
MaxInstanceCount == 3
\* longest ring list a run of the placement loop is started with
MaxRings == 3
\* largest layer count of the rocks texture array
MaxLayerCount == 2
\* significand width of the modelled binary floating-point format (the
\* program's float has 24; every rounding step below is the IEEE one,
\* round-to-nearest-even, at this width)
FloatPrecision == 12
\* largest number of swapchain images
MaxSwapChainImages == 2
\* largest number of calls of buildCommandBuffers in one run
MaxBuilds == 3
\* number of frames a run of the frame loop goes through
MaxFrames == 3
\* largest number of view changes delivered within one frame
MaxViewEvents == 2
\* number of frames a run with a constant frame time goes through
MaxLightFrames == 1000

(***************************************************************************)
(* Program constants.                                                      *)
(***************************************************************************)
INSTANCE_COUNT == 2048
\* sizeof(InstanceData): vec3 pos, vec3 rot, float scale, uint32_t texIndex
SizeofInstanceData == 32
\* the C library's RAND_MAX (implementation-defined; 32767 is the smallest
\* value the C standard allows)
RAND_MAX == 32767
LIGHT_INTENSITY == 70
VERTEX_BUFFER_BIND_ID == 0
INSTANCE_BUFFER_BIND_ID == 1
DESCRIPTOR_COUNT == 4

\* The ring list of prepareInstanceData: <<inner radius, outer radius>>.
RingList ==
    << <<5, 7>>, <<8, 11>>, <<13, 17>>, <<20, 26>>, <<30, 40>>, <<48, 60>> >>

---------------------------------------------------------------------------
(***************************************************************************)
(* float arithmetic.  A float value v >= 0 is the integer v * 2^FracBits;  *)
(* the result of every float operation is rounded to FloatPrecision        *)
(* significant bits, ties to even.                                         *)
(***************************************************************************)
RECURSIVE Pow2(_)
Pow2(n) == IF n = 0 THEN 1 ELSE 2 * Pow2(n - 1)

FracBits == FloatPrecision + 2

One == Pow2(FracBits)

RECURSIVE BitLen(_)
BitLen(x) == IF x = 0 THEN 0 ELSE 1 + BitLen(x \div 2)

\* round-to-nearest-even of the exact value x to FloatPrecision bits
RoundFloat(x) ==
    IF BitLen(x) <= FloatPrecision THEN x
    ELSE LET s == BitLen(x) - FloatPrecision
             q == x \div Pow2(s)
             r == x % Pow2(s)
             h == Pow2(s - 1)
         IN  (IF r > h \/ (r = h /\ q % 2 = 1) THEN q + 1 ELSE q) * Pow2(s)

\* an integer as a float (exact for the integers used here)
ToFloat(n) == n * One

\* the largest float below 1.0: 1 - 2^-FloatPrecision
MaxUniform == One - Pow2(FracBits - FloatPrecision)

\* What uniformDist(rndGenerator) can return: floats in [0, 1).  The model
\* draws the two ends of the range.
UniformDraws == {0, MaxUniform}

\* What rand() can return: integers in [0, RAND_MAX]; the two ends.
RandDraws == {0, RAND_MAX}

---------------------------------------------------------------------------
(***************************************************************************)
(* prepareInstanceData: the placement loop.                                *)
(***************************************************************************)
\* A value-initialised InstanceData, as instanceData.resize() creates it.
\* rho2 is the squared distance of pos from the y axis, pos.x^2 + pos.z^2
\* (= rho^2 for pos = (rho cos theta, y, rho sin theta)).
DefaultInstanceData == [rho2 |-> 0, scale |-> 0, texIndex |-> 0]

resize(n) == [i \in 1..n |-> DefaultInstanceData]

numInChunkOffByOne(n, k) == (n \div k) - 1
\* const auto numInChunk = INSTANCE_COUNT / rings.size();
numInChunk(n, k) == n \div k

\* pow(ring[1], 2.0f) - pow(ring[0], 2.0f)) * U + pow(ring[0], 2.0f): the
\* argument of sqrt, i.e. rho squared, as a float
RhoSquaredNoOffset(ring, u) ==
    RoundFloat((ring[2] * ring[2] - ring[1] * ring[1]) * u)
RhoSquared(ring, u) ==
    RoundFloat(RoundFloat((ring[2] * ring[2] - ring[1] * ring[1]) * u)
               + ToFloat(ring[1] * ring[1]))

\* scale = 1.5f + U1 - U2, then scale *= 0.75f
Scale(u1, u2) ==
    LET s == RoundFloat(RoundFloat(3 * (One \div 2) + u1) - u2)
    IN  RoundFloat((s * 3) \div 4)

\* float rnd(float range) { return range * (rand() / double(RAND_MAX)); }
\* converted to uint32_t by the assignment to texIndex: the integer part.
\* r is the value rand() returned.
rnd(range, r) == (range * r) \div RAND_MAX

\* prepareInstanceData is entered with n requested instances, the first k
\* rings of the list (at least one instance per ring, as in the program)
\* and a texture array of l layers
GenInit(n, k, l) ==
    /\ genPc = "start"
    /\ instanceCount = n
    /\ rings = SubSeq(RingList, 1, k)
    /\ layerCount = l
    /\ instIdInChunk = 0
    /\ ringId = 0
    /\ instanceData = <<>>
    /\ writes = <<>>
    /\ instanceBuffer = [size |-> 0, buffer |-> "null", memory |-> "null"]
    /\ stagingBuffer = [size |-> 0, buffer |-> "null", memory |-> "null"]
    /\ copyRegion = [size |-> 0]
    /\ copyCmd = "none"
    /\ deviceLocal = [data |-> <<>>, writes |-> 0]

GenIdle == GenInit(MaxInstanceCount, 1, 1)

\* lines 776-794: the vector is sized to the requested count
ResizeInstanceData ==
    /\ genPc = "start"
    /\ instanceData' = resize(instanceCount)
    /\ writes' = [i \in 1..instanceCount |-> 0]
    /\ instIdInChunk' = 0
    /\ ringId' = 0
    /\ genPc' = "loop"
    /\ UNCHANGED <<instanceCount, rings, layerCount, instanceBuffer,
                   stagingBuffer, copyRegion, copyCmd, deviceLocal,
                   prepVars, frameVars, setupVars>>

\* a variant: chunk index and ring index exchanged
instanceIdChunkMajor(c, r, chunk) == r + c * chunk

\* const auto instanceId = instIdInChunk + ringId*numInChunk;
instanceId(c, r, chunk) == c + r * chunk

\* lines 796-812: one pass through the body of the inner loop
GenerateInstance ==
    /\ genPc = "loop"
    /\ instIdInChunk < numInChunk(instanceCount, Len(rings))
    /\ ringId < Len(rings)
    /\ \E u \in UniformDraws, u1 \in UniformDraws, u2 \in UniformDraws,
          r \in RandDraws :
          LET id == instanceId(instIdInChunk, ringId,
                               numInChunk(instanceCount, Len(rings)))
              rec == [rho2     |-> RhoSquared(rings[ringId + 1], u),
                      scale    |-> Scale(u1, u2),
                      texIndex |-> rnd(layerCount, r)]
          IN  /\ id + 1 \in DOMAIN instanceData
              /\ instanceData' = [instanceData EXCEPT ![id + 1] = rec]
              /\ writes' = [writes EXCEPT ![id + 1] = @ + 1]
    /\ IF ringId + 1 < Len(rings)
       THEN /\ ringId' = ringId + 1
            /\ instIdInChunk' = instIdInChunk
       ELSE /\ ringId' = 0
            /\ instIdInChunk' = instIdInChunk + 1
    /\ UNCHANGED <<genPc, instanceCount, rings, layerCount, instanceBuffer,
                   stagingBuffer, copyRegion, copyCmd, deviceLocal,
                   prepVars, frameVars, setupVars>>

InstanceBufferSizeNoSizeof(data) == Len(data)
\* instanceBuffer.size = instanceData.size() * sizeof(InstanceData);
InstanceBufferSize(data) == Len(data) * SizeofInstanceData

\* lines 814-838: the loop is over; the staging buffer (filled from
\* instanceData.data()) and the device-local buffer are created with
\* instanceBuffer.size bytes
CreateInstanceBuffers ==
    /\ genPc = "loop"
    /\ instIdInChunk >= numInChunk(instanceCount, Len(rings))
    /\ LET size == InstanceBufferSize(instanceData)
       IN  /\ instanceBuffer' = [size |-> size, buffer |-> "created",
                                 memory |-> "allocated"]
           /\ stagingBuffer' = [size |-> size, buffer |-> "created",
                                memory |-> "allocated"]
    /\ genPc' = "copy"
    /\ UNCHANGED <<instanceCount, rings, layerCount, instIdInChunk, ringId,
                   instanceData, writes, copyRegion, copyCmd, deviceLocal,
                   prepVars, frameVars, setupVars>>

\* a variant: the copy is submitted and prepareInstanceData goes on
\* without waiting for it
UploadNextWithoutWait(pc) ==
    CASE pc = "copy"    -> "destroy"
      [] pc = "flush"   -> "destroy"
      [] pc = "destroy" -> "done"

\* The statements of the upload in program order (lines 841-860): record
\* and hand over the copy, flushCommandBuffer, release the staging buffer
UploadNext(pc) ==
    CASE pc = "copy"    -> "flush"
      [] pc = "flush"   -> "destroy"
      [] pc = "destroy" -> "done"

\* lines 841-852: the one-shot copy of instanceBuffer.size bytes is
\* recorded into copyCmd and handed to flushCommandBuffer, which submits it
CopyInstanceData ==
    /\ genPc = "copy"
    /\ copyRegion' = [size |-> instanceBuffer.size]
    /\ copyCmd' = "pending"
    /\ genPc' = UploadNext(genPc)
    /\ UNCHANGED <<instanceCount, rings, layerCount, instIdInChunk, ringId,
                   instanceData, writes, instanceBuffer, stagingBuffer,
                   deviceLocal, prepVars, frameVars, setupVars>>

\* the GPU takes the submitted copy up
ExecuteCopy ==
    /\ copyCmd = "pending"
    /\ copyCmd' = "executing"
    /\ UNCHANGED <<genPc, instanceCount, rings, layerCount, instIdInChunk,
                   ringId, instanceData, writes, instanceBuffer,
                   stagingBuffer, copyRegion, deviceLocal,
                   prepVars, frameVars, setupVars>>

\* what a copy reads from the staging buffer, which createBuffer filled
\* from instanceData.data(): nothing defined once the buffer is released
StagingContents ==
    IF stagingBuffer.buffer = "created" /\ stagingBuffer.memory = "allocated"
    THEN instanceData
    ELSE <<>>

\* the GPU finishes the copy: the device-local buffer holds what the
\* staging buffer held
CompleteCopy ==
    /\ copyCmd = "executing"
    /\ copyCmd' = "completed"
    /\ deviceLocal' = [data |-> StagingContents,
                       writes |-> deviceLocal.writes + 1]
    /\ UNCHANGED <<genPc, instanceCount, rings, layerCount, instIdInChunk,
                   ringId, instanceData, writes, instanceBuffer,
                   stagingBuffer, copyRegion, prepVars, frameVars, setupVars>>

\* flushCommandBuffer(copyCmd, queue, true) returns: the host has waited
\* for the submitted command buffer to complete
FlushReturns ==
    /\ genPc = "flush"
    /\ copyCmd = "completed"
    /\ genPc' = UploadNext(genPc)
    /\ UNCHANGED <<instanceCount, rings, layerCount, instIdInChunk, ringId,
                   instanceData, writes, instanceBuffer, stagingBuffer,
                   copyRegion, copyCmd, deviceLocal,
                   prepVars, frameVars, setupVars>>

\* lines 854-860: the staging buffer and its memory are released
DestroyStagingBuffer ==
    /\ genPc = "destroy"
    /\ stagingBuffer' = [stagingBuffer EXCEPT !.buffer = "destroyed",
                                              !.memory = "freed"]
    /\ genPc' = UploadNext(genPc)
    /\ UNCHANGED <<instanceCount, rings, layerCount, instIdInChunk, ringId,
                   instanceData, writes, instanceBuffer, copyRegion,
                   copyCmd, deviceLocal, prepVars, frameVars, setupVars>>

---------------------------------------------------------------------------
(***************************************************************************)
(* prepare: sample count, render pass, frame buffers, command buffers.     *)
(***************************************************************************)
VK_SAMPLE_COUNT_1_BIT == 1
VK_SAMPLE_COUNT_2_BIT == 2
VK_SAMPLE_COUNT_4_BIT == 4
VK_SAMPLE_COUNT_8_BIT == 8
VK_SAMPLE_COUNT_16_BIT == 16
VK_SAMPLE_COUNT_32_BIT == 32
VK_SAMPLE_COUNT_64_BIT == 64

SampleCountBits == {VK_SAMPLE_COUNT_1_BIT, VK_SAMPLE_COUNT_2_BIT,
                    VK_SAMPLE_COUNT_4_BIT, VK_SAMPLE_COUNT_8_BIT,
                    VK_SAMPLE_COUNT_16_BIT, VK_SAMPLE_COUNT_32_BIT,
                    VK_SAMPLE_COUNT_64_BIT}

\* counts & bit, for a single-bit value
HasBit(counts, bit) == (counts \div bit) % 2 = 1

\* The VkSampleCountFlags a device can report for a framebuffer attachment:
\* any set of sample counts that holds 1 and 4 (Vulkan's required limits).
SampleCountMasks ==
    {m \in 1..127 : HasBit(m, VK_SAMPLE_COUNT_1_BIT)
                    /\ HasBit(m, VK_SAMPLE_COUNT_4_BIT)}

\* The surface extents the swapchain supplies.
Extents == {<<1280, 720>>, <<800, 600>>}

Min(a, b) == IF a < b THEN a ELSE b

\* a variant: the highest sample count of the larger of the two masks
getMaxUsableSampleCountOfLarger(color, depth) ==
    LET counts == IF color > depth THEN color ELSE depth
    IN  IF HasBit(counts, VK_SAMPLE_COUNT_64_BIT) THEN VK_SAMPLE_COUNT_64_BIT
        ELSE IF HasBit(counts, VK_SAMPLE_COUNT_32_BIT) THEN VK_SAMPLE_COUNT_32_BIT
        ELSE IF HasBit(counts, VK_SAMPLE_COUNT_16_BIT) THEN VK_SAMPLE_COUNT_16_BIT
        ELSE IF HasBit(counts, VK_SAMPLE_COUNT_8_BIT) THEN VK_SAMPLE_COUNT_8_BIT
        ELSE IF HasBit(counts, VK_SAMPLE_COUNT_4_BIT) THEN VK_SAMPLE_COUNT_4_BIT
        ELSE IF HasBit(counts, VK_SAMPLE_COUNT_2_BIT) THEN VK_SAMPLE_COUNT_2_BIT
        ELSE VK_SAMPLE_COUNT_1_BIT

\* VkSampleCountFlagBits getMaxUsableSampleCount()
getMaxUsableSampleCount(color, depth) ==
    LET counts == Min(color, depth)
    IN  IF HasBit(counts, VK_SAMPLE_COUNT_64_BIT) THEN VK_SAMPLE_COUNT_64_BIT
        ELSE IF HasBit(counts, VK_SAMPLE_COUNT_32_BIT) THEN VK_SAMPLE_COUNT_32_BIT
        ELSE IF HasBit(counts, VK_SAMPLE_COUNT_16_BIT) THEN VK_SAMPLE_COUNT_16_BIT
        ELSE IF HasBit(counts, VK_SAMPLE_COUNT_8_BIT) THEN VK_SAMPLE_COUNT_8_BIT
        ELSE IF HasBit(counts, VK_SAMPLE_COUNT_4_BIT) THEN VK_SAMPLE_COUNT_4_BIT
        ELSE IF HasBit(counts, VK_SAMPLE_COUNT_2_BIT) THEN VK_SAMPLE_COUNT_2_BIT
        ELSE VK_SAMPLE_COUNT_1_BIT

\* one VkAttachmentDescription (the stencil ops are don't-care and the
\* initial layout undefined for all four)
Attachment(format, samples, loadOp, storeOp, finalLayout) ==
    [format |-> format, samples |-> samples, loadOp |-> loadOp,
     storeOp |-> storeOp, stencilLoadOp |-> "DONT_CARE",
     stencilStoreOp |-> "DONT_CARE", initialLayout |-> "UNDEFINED",
     finalLayout |-> finalLayout]

RenderPassAttachmentsResolveLast(samples) ==
    << Attachment("colorFormat", samples, "CLEAR", "DONT_CARE",
                  "COLOR_ATTACHMENT_OPTIMAL"),
       Attachment("depthFormat", samples, "CLEAR", "DONT_CARE",
                  "DEPTH_STENCIL_ATTACHMENT_OPTIMAL"),
       Attachment("colorFormat", VK_SAMPLE_COUNT_1_BIT, "DONT_CARE", "STORE",
                  "PRESENT_SRC_KHR"),
       Attachment("depthFormat", VK_SAMPLE_COUNT_1_BIT, "DONT_CARE", "STORE",
                  "DEPTH_STENCIL_ATTACHMENT_OPTIMAL") >>
\* std::array<VkAttachmentDescription, 4> attachments of setupRenderPass,
\* attachments[0] first
RenderPassAttachments(samples) ==
    << Attachment("colorFormat", samples, "CLEAR", "DONT_CARE",
                  "COLOR_ATTACHMENT_OPTIMAL"),
       Attachment("colorFormat", VK_SAMPLE_COUNT_1_BIT, "DONT_CARE", "STORE",
                  "PRESENT_SRC_KHR"),
       Attachment("depthFormat", samples, "CLEAR", "DONT_CARE",
                  "DEPTH_STENCIL_ATTACHMENT_OPTIMAL"),
       Attachment("depthFormat", VK_SAMPLE_COUNT_1_BIT, "DONT_CARE", "STORE",
                  "DEPTH_STENCIL_ATTACHMENT_OPTIMAL") >>

\* the VkSubpassDescription of setupRenderPass: the attachment indices of
\* colorReference, resolveReference and depthReference
Subpass ==
    [pipelineBindPoint |-> "GRAPHICS", colorAttachmentCount |-> 1,
     pColorAttachments |-> <<0>>, pResolveAttachments |-> <<1>>,
     pDepthStencilAttachment |-> 2]

\* the two VkSubpassDependency of setupRenderPass
Dependencies ==
    << [srcSubpass |-> "EXTERNAL", dstSubpass |-> "0",
        dependencyFlags |-> "BY_REGION"],
       [srcSubpass |-> "0", dstSubpass |-> "EXTERNAL",
        dependencyFlags |-> "BY_REGION"] >>

NoRenderPass == [attachments |-> <<>>, subpasses |-> <<>>, dependencies |-> <<>>]

\* one image/view/memory triple of multisampleTarget
NoTarget == [image |-> "null", view |-> "null", memory |-> "null",
             samples |-> 0, extent |-> <<0, 0>>]

MultisampleImage(samples, ext) ==
    [image |-> "created", view |-> "created", memory |-> "bound",
     samples |-> samples, extent |-> ext]

\* the assert at the head of setupMultisampleTarget
SampleCountSupported ==
    /\ framebufferColorSampleCounts >= sampleCount
    /\ framebufferDepthSampleCounts >= sampleCount

\* one VkImageView handed to a frame buffer: which view, and for a
\* swapchain view of which image
View(name, image) == [view |-> name, image |-> image]

FrameBufferAttachmentsFirstSwapView(i) ==
    << View("multisampleTarget.color.view", 0),
       View("swapChain.buffers.view", 0),
       View("multisampleTarget.depth.view", 0),
       View("depthStencil.view", 0) >>
\* the attachments array of setupFrameBuffer for swapchain image i (0-based)
FrameBufferAttachments(i) ==
    << View("multisampleTarget.color.view", 0),
       View("swapChain.buffers.view", i),
       View("multisampleTarget.depth.view", 0),
       View("depthStencil.view", 0) >>

\* one recorded command
Cmd(op, obj, a, b) == [op |-> op, obj |-> obj, a |-> a, b |-> b]

vkBeginCommandBufferNoReset(cb) == cb
\* vkBeginCommandBuffer on a command buffer of a resettable pool: what
\* was recorded before is dropped
vkBeginCommandBuffer(cb) == <<>>

DrawCommandsRocksFirst(i, ext) ==
    << Cmd("vkCmdBeginRenderPass", "frameBuffers", i, 0),
       Cmd("vkCmdSetViewport", "", ext[1], ext[2]),
       Cmd("vkCmdSetScissor", "", ext[1], ext[2]),
       Cmd("vkCmdBindPipeline", "instancedRocksVkPipeline", 0, 0),
       Cmd("vkCmdDrawIndexed", "rockModel", 0, 1),
       Cmd("vkCmdBindPipeline", "starfieldVkPipeline", 0, 0),
       Cmd("vkCmdDraw", "", 4, 1),
       Cmd("vkCmdEndRenderPass", "", 0, 0) >>
DrawCommandsInstanceBufferAtBinding0(i, ext) ==
    << Cmd("vkCmdBeginRenderPass", "frameBuffers", i, 0),
       Cmd("vkCmdBindDescriptorSets", "planetVkDescrSet", 0, 1),
       Cmd("vkCmdBindPipeline", "starfieldVkPipeline", 0, 0),
       Cmd("vkCmdDraw", "", 4, 1),
       Cmd("vkCmdBindDescriptorSets", "instancedRocksVkDescrSet", 0, 1),
       Cmd("vkCmdBindPipeline", "instancedRocksVkPipeline", 0, 0),
       Cmd("vkCmdBindVertexBuffers", "rockModel.vertices",
           VERTEX_BUFFER_BIND_ID, 1),
       Cmd("vkCmdBindVertexBuffers", "instanceBuffer.buffer",
           VERTEX_BUFFER_BIND_ID, 1),
       Cmd("vkCmdBindIndexBuffer", "rockModel", 0, 0),
       Cmd("vkCmdDrawIndexed", "rockModel", 0, INSTANCE_COUNT),
       Cmd("vkCmdEndRenderPass", "", 0, 0) >>
\* the body of the loop of buildCommandBuffers for drawCmdBuffers[i], from
\* vkCmdBeginRenderPass to vkCmdEndRenderPass.  A command is
\*   vkCmdBeginRenderPass   a = index of the frame buffer
\*   vkCmdSetViewport       a, b = width, height (vkCmdSetScissor alike)
\*   vkCmdBindDescriptorSets / vkCmdBindPipeline   obj = the set, pipeline
\*   vkCmdBindVertexBuffers obj = the buffer, a = binding, b = bindingCount
\*   vkCmdBindIndexBuffer   obj = the model whose index buffer is bound
\*   vkCmdDraw              a = vertexCount, b = instanceCount
\*   vkCmdDrawIndexed       obj = the model whose indexCount, b = instanceCount
DrawCommands(i, ext) ==
    << Cmd("vkCmdBeginRenderPass", "frameBuffers", i, 0),
       Cmd("vkCmdSetViewport", "", ext[1], ext[2]),
       Cmd("vkCmdSetScissor", "", ext[1], ext[2]),
       \* Star field
       Cmd("vkCmdBindDescriptorSets", "planetVkDescrSet", 0, 1),
       Cmd("vkCmdBindPipeline", "starfieldVkPipeline", 0, 0),
       Cmd("vkCmdDraw", "", 4, 1),
       \* Planet
       Cmd("vkCmdBindDescriptorSets", "planetVkDescrSet", 0, 1),
       Cmd("vkCmdBindPipeline", "planetVkPipeline", 0, 0),
       Cmd("vkCmdBindVertexBuffers", "planetModel.vertices",
           VERTEX_BUFFER_BIND_ID, 1),
       Cmd("vkCmdBindIndexBuffer", "planetModel", 0, 0),
       Cmd("vkCmdDrawIndexed", "planetModel", 0, 1),
       \* Light
       Cmd("vkCmdBindDescriptorSets", "lightVkDescrSet", 0, 1),
       Cmd("vkCmdBindPipeline", "lightVkPipeline", 0, 0),
       Cmd("vkCmdBindVertexBuffers", "lightModel.vertices",
           VERTEX_BUFFER_BIND_ID, 1),
       Cmd("vkCmdBindIndexBuffer", "lightModel", 0, 0),
       Cmd("vkCmdDrawIndexed", "lightModel", 0, 1),
       \* Construct
       Cmd("vkCmdBindDescriptorSets", "constructVkDescrSet", 0, 1),
       Cmd("vkCmdBindPipeline", "constructVkPipeline", 0, 0),
       Cmd("vkCmdBindVertexBuffers", "constructModel.vertices",
           VERTEX_BUFFER_BIND_ID, 1),
       Cmd("vkCmdBindIndexBuffer", "constructModel", 0, 0),
       Cmd("vkCmdDrawIndexed", "constructModel", 0, 1),
       \* Instanced rocks
       Cmd("vkCmdBindDescriptorSets", "instancedRocksVkDescrSet", 0, 1),
       Cmd("vkCmdBindPipeline", "instancedRocksVkPipeline", 0, 0),
       Cmd("vkCmdBindVertexBuffers", "rockModel.vertices",
           VERTEX_BUFFER_BIND_ID, 1),
       Cmd("vkCmdBindVertexBuffers", "instanceBuffer.buffer",
           INSTANCE_BUFFER_BIND_ID, 1),
       Cmd("vkCmdBindIndexBuffer", "rockModel", 0, 0),
       Cmd("vkCmdDrawIndexed", "rockModel", 0, INSTANCE_COUNT),
       Cmd("vkCmdEndRenderPass", "", 0, 0) >>

\* what a call of buildCommandBuffers reads: the surface extent and the
\* frame buffers (the render pass, pipelines, descriptor sets and meshes it
\* names are created once and never change)
BuildInputs(ext, fbs) == [extent |-> ext, frameBuffers |-> fbs]

\* the loop of buildCommandBuffers over the command buffers cbs
RecordAll(cbs, ext) ==
    [i \in DOMAIN cbs |->
        vkBeginCommandBuffer(cbs[i]) \o DrawCommands(i - 1, ext)]

\* The state prepare() starts from on a device reporting the sample-count
\* masks c and d, with n swapchain images of extent e: the base class has
\* allocated one empty draw command buffer per swapchain image.
PrepInit(c, d, n, e) ==
    /\ prepPc = "getMaxUsableSampleCount"
    /\ framebufferColorSampleCounts = c
    /\ framebufferDepthSampleCounts = d
    /\ sampleCount = VK_SAMPLE_COUNT_1_BIT
    /\ swapChainImageCount = n
    /\ extent = e
    /\ renderPass = NoRenderPass
    /\ renderPassCreated = FALSE
    /\ multisampleTarget = [color |-> NoTarget, depth |-> NoTarget]
    /\ frameBuffers = <<>>
    /\ drawCmdBuffers = [i \in 1..n |-> <<>>]
    /\ builds = <<>>

PrepIdle == PrepInit(VK_SAMPLE_COUNT_1_BIT + VK_SAMPLE_COUNT_4_BIT,
                     VK_SAMPLE_COUNT_1_BIT + VK_SAMPLE_COUNT_4_BIT,
                     1, <<1280, 720>>)

\* prepare(), line 961
SelectSampleCount ==
    /\ prepPc = "getMaxUsableSampleCount"
    /\ sampleCount' = getMaxUsableSampleCount(framebufferColorSampleCounts,
                                              framebufferDepthSampleCounts)
    /\ prepPc' = "VulkanExampleBase::prepare"
    /\ UNCHANGED <<framebufferColorSampleCounts, framebufferDepthSampleCounts,
                   swapChainImageCount, extent, renderPass, renderPassCreated,
                   multisampleTarget, frameBuffers, drawCmdBuffers,
                   builds, genVars, frameVars, setupVars>>

\* setupRenderPass(), called from VulkanExampleBase::prepare
SetupRenderPass ==
    /\ prepPc = "VulkanExampleBase::prepare"
    /\ ~renderPassCreated
    /\ renderPass' = [attachments  |-> RenderPassAttachments(sampleCount),
                      subpasses    |-> <<Subpass>>,
                      dependencies |-> Dependencies]
    /\ renderPassCreated' = TRUE
    /\ UNCHANGED <<prepPc, framebufferColorSampleCounts,
                   framebufferDepthSampleCounts, sampleCount,
                   swapChainImageCount, extent, multisampleTarget,
                   frameBuffers, drawCmdBuffers, builds, genVars, frameVars, setupVars>>

\* setupFrameBuffer(), called from VulkanExampleBase::prepare once the
\* render pass exists: setupMultisampleTarget (whose assert ends the
\* process when it fails), then one frame buffer per swapchain image
SetupFrameBuffer ==
    /\ prepPc = "VulkanExampleBase::prepare"
    /\ renderPassCreated
    /\ IF SampleCountSupported
       THEN /\ multisampleTarget' =
                  [color |-> MultisampleImage(sampleCount, extent),
                   depth |-> MultisampleImage(sampleCount, extent)]
            /\ frameBuffers' = [i \in 1..swapChainImageCount |->
                                   FrameBufferAttachments(i - 1)]
            /\ prepPc' = "buildCommandBuffers"
       ELSE /\ prepPc' = "aborted"
            /\ UNCHANGED <<multisampleTarget, frameBuffers>>
    /\ UNCHANGED <<framebufferColorSampleCounts, framebufferDepthSampleCounts,
                   sampleCount, swapChainImageCount, extent, renderPass,
                   renderPassCreated, drawCmdBuffers, builds, genVars, frameVars, setupVars>>

\* buildCommandBuffers(): called at the end of prepare(), and again by the
\* base class whenever the command buffers have to be rebuilt
BuildCommandBuffers ==
    /\ prepPc \in {"buildCommandBuffers", "prepared"}
    /\ Len(builds) < MaxBuilds
    /\ drawCmdBuffers' = RecordAll(drawCmdBuffers, extent)
    /\ builds' = Append(builds,
                        [inputs   |-> BuildInputs(extent, frameBuffers),
                         recorded |-> drawCmdBuffers'])
    /\ prepPc' = "prepared"
    /\ UNCHANGED <<framebufferColorSampleCounts, framebufferDepthSampleCounts,
                   sampleCount, swapChainImageCount, extent, renderPass,
                   renderPassCreated, multisampleTarget, frameBuffers,
                   genVars, frameVars, setupVars>>

\* The window is resized: the swapchain supplies a new extent, the frame
\* buffers are set up again for it and the command buffers are rebuilt.
WindowResize ==
    /\ prepPc = "prepared"
    /\ Len(builds) < MaxBuilds
    /\ \E e \in Extents \ {extent} :
          /\ extent' = e
          /\ multisampleTarget' =
                [color |-> MultisampleImage(sampleCount, e),
                 depth |-> MultisampleImage(sampleCount, e)]
          /\ frameBuffers' = [i \in 1..swapChainImageCount |->
                                 FrameBufferAttachments(i - 1)]
          /\ drawCmdBuffers' = RecordAll(drawCmdBuffers, e)
          /\ builds' = Append(builds,
                              [inputs   |-> BuildInputs(e, frameBuffers'),
                               recorded |-> drawCmdBuffers'])
    /\ UNCHANGED <<prepPc, framebufferColorSampleCounts,
                   framebufferDepthSampleCounts, sampleCount,
                   swapChainImageCount, renderPass, renderPassCreated,
                   genVars, frameVars, setupVars>>

---------------------------------------------------------------------------
(***************************************************************************)
(* The frame loop: render, viewChanged, updateUniformBuffer, updateLight.  *)
(* Times are in milliseconds (frameTimer 0.1f is 100), lengths and         *)
(* velocities in thousandths of a unit, the two animation phases in units  *)
(* of 10^-5, every quotient rounded to the nearest such value; the light   *)
(* intensity is a float.                                                   *)
(***************************************************************************)
\* a / b for b > 0, rounded to nearest
DivRound(a, b) ==
    IF a >= 0 THEN (2 * a + b) \div (2 * b)
    ELSE -((2 * (-a) + b) \div (2 * b))

RECURSIVE IsqrtBetween(_, _, _)
IsqrtBetween(n, lo, hi) ==
    IF lo >= hi THEN lo
    ELSE LET mid == (lo + hi + 1) \div 2
         IN  IF mid * mid <= n THEN IsqrtBetween(n, mid, hi)
             ELSE IsqrtBetween(n, lo, mid - 1)

\* the integer part of the square root of n < 2^30
Isqrt(n) == IsqrtBetween(n, 0, 32767)

(***************************************************************************)
(* The float arithmetic of the light intensity.  A float is the record     *)
(* [m, e] of value m * 2^e with m < 2^FloatPrecision, m odd or zero; every *)
(* operation rounds its exact result to FloatPrecision significant bits,   *)
(* ties to even, as IEEE arithmetic does.                                  *)
(***************************************************************************)
RECURSIVE Strip(_, _)
Strip(m, e) ==
    IF m = 0 THEN [m |-> 0, e |-> 0]
    ELSE IF m % 2 = 0 THEN Strip(m \div 2, e + 1)
    ELSE [m |-> m, e |-> e]

\* n / 2^s rounded to the nearest integer, ties to even
RoundEvenShift(n, s) ==
    IF s = 0 THEN n
    ELSE LET q == n \div Pow2(s)
             r == n % Pow2(s)
             h == Pow2(s - 1)
         IN  IF r > h \/ (r = h /\ q % 2 = 1) THEN q + 1 ELSE q

\* the float nearest to n * 2^e
FloatOf(n, e) ==
    LET s == IF BitLen(n) > FloatPrecision THEN BitLen(n) - FloatPrecision
             ELSE 0
    IN  Strip(RoundEvenShift(n, s), e + s)

\* one more than the exponent of the leading bit
Top(a) == a.e + BitLen(a.m)

FMul(a, b) == FloatOf(a.m * b.m, a.e + b.e)

\* a + b; an addend below a quarter of the other's last place is absorbed
FAdd(a, b) ==
    IF a.m = 0 THEN b
    ELSE IF b.m = 0 THEN a
    ELSE LET hi == IF Top(a) >= Top(b) THEN a ELSE b
             lo == IF Top(a) >= Top(b) THEN b ELSE a
             e  == Min(a.e, b.e)
         IN  IF Top(hi) - Top(lo) > FloatPrecision + 1 THEN hi
             ELSE FloatOf(a.m * Pow2(a.e - e) + b.m * Pow2(b.e - e), e)

\* a - b for a >= b
FSub(a, b) ==
    IF b.m = 0 THEN a
    ELSE LET e == Min(a.e, b.e)
         IN  IF Top(a) - Top(b) > FloatPrecision + 1 THEN a
             ELSE FloatOf(a.m * Pow2(a.e - e) - b.m * Pow2(b.e - e), e)

\* a <= b
FLeq(a, b) ==
    \/ a.m = 0
    \/ /\ b.m # 0
       /\ \/ Top(a) < Top(b)
          \/ /\ Top(a) = Top(b)
             /\ LET e == Min(a.e, b.e)
                IN  a.m * Pow2(a.e - e) <= b.m * Pow2(b.e - e)

RECURSIVE ShiftFor(_, _, _)
\* the least s >= s0 with num * 2^s >= den * 2^(FloatPrecision + 1)
ShiftFor(num, den, s0) ==
    IF num * Pow2(s0) >= den * Pow2(FloatPrecision + 1) THEN s0
    ELSE ShiftFor(num, den, s0 + 1)

\* the float nearest to num / den (num, den > 0): the quotient to
\* FloatPrecision + 2 bits with a sticky bit for the remainder, rounded
FromRatio(num, den) ==
    LET s == ShiftFor(num, den, 0)
        q == (num * Pow2(s)) \div den
        r == (num * Pow2(s)) % den
    IN  FloatOf(2 * q + (IF r > 0 THEN 1 ELSE 0), -s - 1)

FZero == [m |-> 0, e |-> 0]

\* 1.0f
FOne == FloatOf(1, 0)

\* 0.25f
FQuarter == FloatOf(1, -2)

\* frameTimer as the float it is: ft milliseconds are ft / 1000 seconds
FrameTimerFloat(ft) == FromRatio(ft, 1000)

LightIntensityStepNoDecay(x, ft) ==
    LET k == FMul(FQuarter, FrameTimerFloat(ft))
    IN  FAdd(FMul(FloatOf(LIGHT_INTENSITY, 0), k), FMul(x, FAdd(FOne, k)))
\* const float k = 0.25f * frameTimer;
\* uboVS.lightInt = LIGHT_INTENSITY*k + uboVS.lightInt*(1.0f - k);
LightIntensityStep(x, ft) ==
    LET k == FMul(FQuarter, FrameTimerFloat(ft))
    IN  FAdd(FMul(FloatOf(LIGHT_INTENSITY, 0), k), FMul(x, FSub(FOne, k)))

\* 0.1f, the largest frameTimer render() lets through
FrameTimerLimit == 100

\* the frame times the frame-timing collaborator supplies: a usual frame,
\* one of exactly 0.1 and a stalled one
FrameDeltas == {16, 100, 250}

\* the camera as the constructor sets it (zoom, rotation and cameraPos in
\* tenths), and after the user has zoomed in
InitialCamera ==
    [zoom |-> -480, rotation |-> <<-5200, -29250, 0>>,
     cameraPos |-> <<152, -85, 0>>]

Cameras == {InitialCamera, [InitialCamera EXCEPT !.zoom = -400]}

\* A matrix or position updateUniformBuffer computes is represented by what
\* it was computed from (the camera, or width and height for the
\* projection); what the constructor leaves there is marked initial.
Derived(what, from) == [what |-> what, from |-> from]

Initial(what) == [what |-> what, initial |-> TRUE]

\* struct UBOVS as constructed
InitialUboVS ==
    [view |-> Initial("view"), projection |-> Initial("projection"),
     lightPos |-> <<19796, -3000, -19796>>, camPos |-> Initial("camPos"),
     lightInt |-> FZero, locSpeed |-> 0, globSpeed |-> 0]

\* static glm::vec3 pi, vi of updateLight
InitialLight == [pi |-> <<45000, 0, 10000>>, vi |-> <<-1000, -300, 1000>>]

\* void updateLight(): the new [uboVS, light] for frameTimer ft.
\*   G*mp = 250, so ai = fi/mi = -dirVec * 250 / r^2
updateLight(ubo, lt, ft) ==
    LET p == lt.pi
        v == lt.vi
        \* r = glm::distance(pi, pp), in hundredths
        r == Isqrt(DivRound(p[1], 10) * DivRound(p[1], 10)
                   + DivRound(p[2], 10) * DivRound(p[2], 10)
                   + DivRound(p[3], 10) * DivRound(p[3], 10))
        \* dirVec = glm::normalize(pi - pp), in thousandths
        dirVec == [i \in 1..3 |-> DivRound(p[i] * 1000, 10 * r)]
        ai == [i \in 1..3 |->
                  -DivRound(DivRound(dirVec[i] * 250000, r) * 10, r)]
        vNew == [i \in 1..3 |-> v[i] + DivRound(ai[i] * ft, 1000)]
        pNew == [i \in 1..3 |-> p[i] + DivRound(vNew[i] * ft, 1000)]
        lightInt == LightIntensityStep(ubo.lightInt, ft)
    IN  [uboVS |-> [ubo EXCEPT !.lightInt = lightInt, !.lightPos = pNew],
         light |-> [pi |-> pNew, vi |-> vNew]]

updateUniformBufferIgnoringPause(viewChanged, ubo, lt, ft, cam, isPaused) ==
    LET u1 == IF viewChanged
              THEN [ubo EXCEPT !.projection = Derived("projection", extent),
                               !.view = Derived("view", cam),
                               !.camPos = Derived("camPos", cam)]
              ELSE ubo
        u2 == [u1 EXCEPT !.locSpeed = @ + ft * 35, !.globSpeed = @ + ft]
        l  == updateLight(u2, lt, ft)
    IN  [uboVS |-> l.uboVS, light |-> l.light, advanced |-> TRUE]

\* void updateUniformBuffer(bool viewChanged): the new uboVS and light, and
\* whether the phases and the light were advanced; the caller copies uboVS
\* to the mapped uniform buffer.
\*   locSpeed += frameTimer * 0.35f; globSpeed += frameTimer * 0.01f
updateUniformBuffer(viewChanged, ubo, lt, ft, cam, isPaused) ==
    LET u1 == IF viewChanged
              THEN [ubo EXCEPT !.projection = Derived("projection", extent),
                               !.view = Derived("view", cam),
                               !.camPos = Derived("camPos", cam)]
              ELSE ubo
    IN  IF ~isPaused
        THEN LET u2 == [u1 EXCEPT !.locSpeed = @ + ft * 35,
                                  !.globSpeed = @ + ft]
                 l  == updateLight(u2, lt, ft)
             IN  [uboVS |-> l.uboVS, light |-> l.light, advanced |-> TRUE]
        ELSE [uboVS |-> u1, light |-> lt, advanced |-> FALSE]

Max(a, b) == IF a > b THEN a ELSE b

\* the history of a frame after a call of updateUniformBuffer from
\* viewChanged or render that returned upd and ran with frameTimer ft
Recorded(f, upd, ft) ==
    [f EXCEPT !.uboWrites = @ + 1,
              !.advances = IF upd.advanced THEN @ + 1 ELSE @,
              !.maxDelta = IF upd.advanced THEN Max(@, ft) ELSE @]

NewFrame(n, isPaused, maxDelta) ==
    [n |-> n, drawn |-> FALSE, rendered |-> FALSE, advances |-> 0,
     uboWrites |-> 0, viewEvents |-> 0, toggled |-> FALSE,
     pausedSeen |-> isPaused, maxDelta |-> maxDelta]

\* The state the frame loop starts from: constructed, the uniform buffer
\* not yet created, frameTimer whatever the timing collaborator holds.
FrameInit(ft) ==
    /\ prepared = FALSE
    /\ paused = FALSE
    /\ frameTimer = ft
    /\ camera = InitialCamera
    /\ uboVS = InitialUboVS
    /\ light = InitialLight
    /\ mapped = [created |-> FALSE, data |-> InitialUboVS]
    /\ frame = NewFrame(0, FALSE, 0)

FrameIdle == FrameInit(16)

\* prepareUniformBuffers(): create and map the buffer, first update
PrepareUniformBuffers ==
    /\ ~mapped.created
    /\ LET upd == updateUniformBuffer(TRUE, uboVS, light, frameTimer, camera,
                                      paused)
       IN  /\ uboVS' = upd.uboVS
           /\ light' = upd.light
           /\ mapped' = [created |-> TRUE, data |-> upd.uboVS]
           \* start-up: no frame's update, only the delta is recorded
           /\ frame' = [frame EXCEPT !.maxDelta = IF upd.advanced
                                                  THEN Max(@, frameTimer)
                                                  ELSE @]
    /\ UNCHANGED <<prepared, paused, frameTimer, camera, genVars, prepVars, setupVars>>

\* prepare(), line 971
FinishPrepare ==
    /\ mapped.created
    /\ ~prepared
    /\ prepared' = TRUE
    /\ UNCHANGED <<paused, frameTimer, camera, uboVS, light, mapped, frame,
                   genVars, prepVars, setupVars>>

\* render(): once per frame
Render ==
    /\ ~frame.rendered
    /\ LET ft == IF frameTimer > FrameTimerLimit THEN FrameTimerLimit
                 ELSE frameTimer
       IN  /\ frameTimer' = ft
           /\ IF ~prepared
              THEN /\ frame' = [frame EXCEPT !.rendered = TRUE]
                   /\ UNCHANGED <<uboVS, light, mapped>>
              ELSE IF ~paused
              THEN LET upd == updateUniformBuffer(FALSE, uboVS, light, ft,
                                                  camera, paused)
                   IN  /\ uboVS' = upd.uboVS
                       /\ light' = upd.light
                       /\ mapped' = [mapped EXCEPT !.data = upd.uboVS]
                       /\ frame' = [Recorded(frame, upd, ft)
                                       EXCEPT !.rendered = TRUE,
                                              !.drawn = TRUE]
              ELSE /\ frame' = [frame EXCEPT !.rendered = TRUE,
                                             !.drawn = TRUE]
                   /\ UNCHANGED <<uboVS, light, mapped>>
    /\ UNCHANGED <<prepared, paused, camera, genVars, prepVars, setupVars>>

\* viewChanged(): the base class delivers a view change (the camera has
\* moved or not) before the frame is rendered
ViewChanged ==
    /\ prepared
    /\ ~frame.rendered
    /\ frame.viewEvents < MaxViewEvents
    /\ \E cam \in Cameras :
          LET upd == updateUniformBuffer(TRUE, uboVS, light, frameTimer, cam,
                                         paused)
          IN  /\ camera' = cam
              /\ uboVS' = upd.uboVS
              /\ light' = upd.light
              /\ mapped' = [mapped EXCEPT !.data = upd.uboVS]
              /\ frame' = [Recorded(frame, upd, frameTimer)
                              EXCEPT !.viewEvents = @ + 1]
    /\ UNCHANGED <<prepared, paused, frameTimer, genVars, prepVars, setupVars>>

\* the pause flag is flipped (at most once a frame)
TogglePause ==
    /\ ~frame.rendered
    /\ ~frame.toggled
    /\ paused' = ~paused
    /\ frame' = [frame EXCEPT !.toggled = TRUE, !.pausedSeen = TRUE]
    /\ UNCHANGED <<prepared, frameTimer, camera, uboVS, light, mapped,
                   genVars, prepVars, setupVars>>

\* the frame is over: the timing collaborator stores the time it took
EndFrame ==
    /\ frame.rendered
    /\ frame.n < MaxFrames
    /\ \E ft \in FrameDeltas : frameTimer' = ft
    /\ frame' = NewFrame(frame.n + 1, paused, frame.maxDelta)
    /\ UNCHANGED <<prepared, paused, camera, uboVS, light, mapped,
                   genVars, prepVars, setupVars>>

\* the constant frame times of the steady runs, all in (0, 0.1]
SteadyDeltas == {17, 50, FrameTimerLimit}

\* One frame of a steady run: render() of the prepared, running program,
\* after which the timing collaborator stores the same frame time again.
SteadyFrame ==
    /\ prepared
    /\ ~paused
    /\ frame.n < MaxLightFrames
    /\ frameTimer <= FrameTimerLimit
    /\ LET upd == updateUniformBuffer(FALSE, uboVS, light, frameTimer,
                                      camera, paused)
       IN  /\ uboVS' = upd.uboVS
           /\ light' = upd.light
           /\ mapped' = [mapped EXCEPT !.data = upd.uboVS]
           /\ frame' = [NewFrame(frame.n + 1, paused,
                                 Max(frame.maxDelta, frameTimer))
                           EXCEPT !.advances = 1, !.uboWrites = 1,
                                  !.drawn = TRUE, !.rendered = TRUE]
    /\ UNCHANGED <<prepared, paused, frameTimer, camera, genVars, prepVars, setupVars>>

---------------------------------------------------------------------------
(***************************************************************************)
(* prepare() call by call: every GPU object creation or allocation of the  *)
(* preparation in program order, with the result each call returns, and    *)
(* the destructor.                                                         *)
(***************************************************************************)
\* a GPU object: the member that holds its handle (index: which element)
Handle(name, index) == [name |-> name, index |-> index]

H(name) == Handle(name, 0)

NoArg == [none |-> TRUE]

\* One step of prepare().  op is
\*   "create"         a creation or allocation call returning a VkResult;
\*                    obj are the objects live after its success
\*   "bindMemory"     vkBindImageMemory
\*   "call"           another call returning a VkResult
\*   "load"           loadFromFile of a model
\*   "selectFormat"   the format selection of loadAssets
\*   "loadTexture"    loadFromFile of a texture, arg.format its format
\*   "destroy"        vkDestroyBuffer / vkFreeMemory of obj
\*   "set"            assignments to the shared pipeline state, arg the
\*                    members assigned
\*   "createPipeline" vkCreateGraphicsPipelines
\*   "createPool"     vkCreateDescriptorPool, arg its sizes
\*   "allocateSet"    vkAllocateDescriptorSets of one set
\*   "setPrepared"    prepared = true
\* checked: the call is wrapped in VK_CHECK_RESULT.
Step(fn, op, obj, checked, arg) ==
    [fn |-> fn, op |-> op, obj |-> obj, checked |-> checked, arg |-> arg]

\* VulkanExampleBase::prepare calls setupRenderPass(), then
\* setupFrameBuffer()
SetupRenderPassSteps ==
    << Step("setupRenderPass", "create", {H("renderPass")}, TRUE, NoArg) >>

\* setupMultisampleTarget(), one target (color or depth): vkCreateImage,
\* vkAllocateMemory, vkBindImageMemory, vkCreateImageView
MultisampleTargetSteps(target) ==
    << Step("setupMultisampleTarget", "create",
            {H("multisampleTarget." \o target \o ".image")}, TRUE, NoArg),
       Step("setupMultisampleTarget", "create",
            {H("multisampleTarget." \o target \o ".memory")}, TRUE, NoArg),
       Step("setupMultisampleTarget", "bindMemory",
            {H("multisampleTarget." \o target \o ".image")}, FALSE, NoArg),
       Step("setupMultisampleTarget", "create",
            {H("multisampleTarget." \o target \o ".view")}, TRUE, NoArg) >>

\* the loop of setupFrameBuffer over n swapchain images
SetupFrameBufferSteps(n) ==
    [i \in 1..n |-> Step("setupFrameBuffer", "create",
                         {Handle("frameBuffers", i - 1)}, TRUE, NoArg)]

Model(name) == {H("models." \o name)}

Texture(name) == {H("textures." \o name)}

\* loadAssets()
LoadAssetsSteps ==
    << Step("loadAssets", "load", Model("rockModel"), FALSE, NoArg),
       Step("loadAssets", "load", Model("planetModel"), FALSE, NoArg),
       Step("loadAssets", "load", Model("lightModel"), FALSE, NoArg),
       Step("loadAssets", "load", Model("constructModel"), FALSE, NoArg),
       Step("loadAssets", "selectFormat", {}, FALSE, NoArg),
       Step("loadAssets", "loadTexture", Texture("rocksTex2DArr"), FALSE,
            [format |-> "texFormat"]),
       Step("loadAssets", "loadTexture", Texture("planetTex2D"), FALSE,
            [format |-> "BC"]),
       Step("loadAssets", "loadTexture", Texture("lightTex2D"), FALSE,
            [format |-> "BC"]),
       Step("loadAssets", "loadTexture", Texture("constructTex2D"), FALSE,
            [format |-> "BC"]) >>

Buffer(name) == {H(name \o ".buffer"), H(name \o ".memory")}

\* prepareInstanceData(): the two createBuffer calls and the release of
\* the staging buffer (the loop and the copy are the placement model above)
PrepareInstanceDataSteps ==
    << Step("prepareInstanceData", "create", Buffer("stagingBuffer"), TRUE,
            NoArg),
       Step("prepareInstanceData", "create", Buffer("instanceBuffer"), TRUE,
            NoArg),
       Step("prepareInstanceData", "destroy", Buffer("stagingBuffer"), FALSE,
            NoArg) >>

\* prepareUniformBuffers(): createBuffer and map
PrepareUniformBuffersSteps ==
    << Step("prepareUniformBuffers", "create",
            Buffer("uniformBuffers.scene"), TRUE, NoArg),
       Step("prepareUniformBuffers", "call", {}, TRUE, NoArg) >>

\* setupDescriptorSetLayout()
SetupDescriptorSetLayoutSteps ==
    << Step("setupDescriptorSetLayout", "create", {H("descriptorSetLayout")},
            TRUE, NoArg),
       Step("setupDescriptorSetLayout", "create", {H("pipelineLayout")},
            TRUE, NoArg) >>

\* preparePipelines(): the locals rasterizationState, depthStencilState and
\* inputState as the initializers leave them (lines 625-646, 688)
InitialPipelineState ==
    [cullMode |-> "BACK",
     depthTestEnable |-> TRUE,
     depthWriteEnable |-> TRUE,
     depthCompareOp |-> "LESS_OR_EQUAL",
     vertexBindingDescriptionCount |-> 0,
     vertexAttributeDescriptionCount |-> 0]

\* the locals before preparePipelines() is entered
NoPipelineState ==
    [cullMode |-> "none",
     depthTestEnable |-> FALSE,
     depthWriteEnable |-> FALSE,
     depthCompareOp |-> "none",
     vertexBindingDescriptionCount |-> 0,
     vertexAttributeDescriptionCount |-> 0]

\* bindingDescriptions (lines 694-699)
bindingDescriptions ==
    << [binding |-> VERTEX_BUFFER_BIND_ID, inputRate |-> "VERTEX"],
       [binding |-> INSTANCE_BUFFER_BIND_ID, inputRate |-> "INSTANCE"] >>

\* attributeDescriptions (lines 707-720), in the order of the vector
attributeDescriptions ==
    << [binding |-> VERTEX_BUFFER_BIND_ID, location |-> 0],
       [binding |-> VERTEX_BUFFER_BIND_ID, location |-> 1],
       [binding |-> VERTEX_BUFFER_BIND_ID, location |-> 2],
       [binding |-> VERTEX_BUFFER_BIND_ID, location |-> 3],
       [binding |-> INSTANCE_BUFFER_BIND_ID, location |-> 5],
       [binding |-> INSTANCE_BUFFER_BIND_ID, location |-> 4],
       [binding |-> INSTANCE_BUFFER_BIND_ID, location |-> 6],
       [binding |-> INSTANCE_BUFFER_BIND_ID, location |-> 7] >>

\* "Use all input bindings and attribute descriptions" (lines 730-731)
AllInputs ==
    [vertexBindingDescriptionCount |-> Len(bindingDescriptions),
     vertexAttributeDescriptionCount |-> Len(attributeDescriptions)]

\* a variant: one binding, but every attribute descriptor kept
NonInstancedInputsAllAttributes ==
    [vertexBindingDescriptionCount |-> 1,
     vertexAttributeDescriptionCount |-> Len(attributeDescriptions)]

\* "Only use the non-instanced input bindings and attribute descriptions"
\* (lines 738-739, 746-747, 754-755)
NonInstancedInputs ==
    [vertexBindingDescriptionCount |-> 1,
     vertexAttributeDescriptionCount |-> 4]

\* "Vertices are generated in the vertex shader" (lines 764-765)
NoInputs ==
    [vertexBindingDescriptionCount |-> 0,
     vertexAttributeDescriptionCount |-> 0]

\* a variant: the star field turns culling off and keeps the depth write
StarfieldStateDepthWriteKept == [cullMode |-> "NONE"]

\* the star field's changes to the shared state (lines 759-760)
StarfieldState == [cullMode |-> "NONE", depthWriteEnable |-> FALSE]

Pipeline(name) == {H("pipelines." \o name)}

\* one pipeline of preparePipelines(): the assignments, then the creation
PipelineSteps(name, assigned) ==
    << Step("preparePipelines", "set", {}, FALSE, assigned),
       Step("preparePipelines", "createPipeline", Pipeline(name), TRUE,
            [name |-> name]) >>

\* preparePipelines()
PreparePipelinesSteps ==
    << Step("preparePipelines", "set", {}, FALSE, InitialPipelineState) >>
    \o PipelineSteps("instancedRocksVkPipeline", AllInputs)
    \o PipelineSteps("planetVkPipeline", NonInstancedInputs)
    \o PipelineSteps("lightVkPipeline", NonInstancedInputs)
    \o PipelineSteps("constructVkPipeline", NonInstancedInputs)
    \o << Step("preparePipelines", "set", {}, FALSE, StarfieldState) >>
    \o PipelineSteps("starfieldVkPipeline", NoInputs)

\* a variant: a pool sized for one set more
SetupDescriptorPoolStepsOneMore ==
    << Step("setupDescriptorPool", "createPool", {H("descriptorPool")}, TRUE,
            [maxSets |-> DESCRIPTOR_COUNT + 1,
             uniformBuffer |-> DESCRIPTOR_COUNT + 1,
             imageSampler |-> DESCRIPTOR_COUNT + 1]) >>

\* setupDescriptorPool(): poolSizes and maxSets
SetupDescriptorPoolSteps ==
    << Step("setupDescriptorPool", "createPool", {H("descriptorPool")}, TRUE,
            [maxSets |-> DESCRIPTOR_COUNT,
             uniformBuffer |-> DESCRIPTOR_COUNT,
             imageSampler |-> DESCRIPTOR_COUNT]) >>

\* setLayoutBindings of setupDescriptorSetLayout(): what one set of the
\* layout takes from the pool
SetLayoutBindings == [uniformBuffer |-> 1, imageSampler |-> 1]

AllocateSet(name) ==
    Step("setupDescriptorSet", "allocateSet", {}, TRUE, [name |-> name])

\* setupDescriptorSet(): the four vkAllocateDescriptorSets calls
SetupDescriptorSetSteps ==
    << AllocateSet("instancedRocksVkDescrSet"),
       AllocateSet("planetVkDescrSet"),
       AllocateSet("lightVkDescrSet"),
       AllocateSet("constructVkDescrSet") >>

\* buildCommandBuffers(): vkBeginCommandBuffer and vkEndCommandBuffer of
\* each of the n draw command buffers (what is recorded between them is
\* DrawCommands above)
BuildCommandBuffersSteps(n) ==
    [i \in 1..(2 * n) |->
        Step("buildCommandBuffers", "call", {}, TRUE, NoArg)]

\* prepare(): the calls in program order, for n swapchain images.  The
\* base class's prepare() calls the overridden setupRenderPass() and
\* setupFrameBuffer(); setupFrameBuffer() starts with
\* setupMultisampleTarget().
SetupSteps(n) ==
    SetupRenderPassSteps
    \o MultisampleTargetSteps("color")
    \o MultisampleTargetSteps("depth")
    \o SetupFrameBufferSteps(n)
    \o LoadAssetsSteps
    \o PrepareInstanceDataSteps
    \o PrepareUniformBuffersSteps
    \o SetupDescriptorSetLayoutSteps
    \o PreparePipelinesSteps
    \o SetupDescriptorPoolSteps
    \o SetupDescriptorSetSteps
    \o BuildCommandBuffersSteps(n)
    \o << Step("prepare", "setPrepared", {}, FALSE, NoArg) >>

\* the compression families a device may report
CompressionFamilies == {"BC", "ASTC_LDR", "ETC2"}

NoFailure == [step |-> 0, after |-> 0]

NoPool == [created |-> FALSE, maxSets |-> 0, uniformBuffer |-> 0,
           imageSampler |-> 0, sets |-> {}]

\* The state before prepare() on a device supporting the families f
SetupInit(f) ==
    /\ setupPc = 1
    /\ setupStatus = "running"
    /\ features = f
    /\ live = {}
    /\ texFormat = "none"
    /\ textures = <<>>
    /\ pipelineState = NoPipelineState
    /\ pipelines = <<>>
    /\ descriptorPool = NoPool
    /\ failure = NoFailure

SetupIdle == SetupInit({"BC"})

CurrentStep == SetupSteps(swapChainImageCount)[setupPc]

\* prepare() is about to execute a step of kind op
At(op) ==
    /\ setupStatus = "running"
    /\ setupPc <= Len(SetupSteps(swapChainImageCount))
    /\ CurrentStep.op = op

\* the step returns (failed: with an error result) and prepare() goes on
Continue(failed) ==
    /\ setupPc' = setupPc + 1
    /\ failure' = IF failure.step # 0
                  THEN [failure EXCEPT !.after = @ + 1]
                  ELSE IF failed THEN [failure EXCEPT !.step = setupPc]
                  ELSE failure

\* VK_CHECK_RESULT on an error result: the process is aborted at the call
Abort ==
    /\ setupStatus' = "aborted"
    /\ failure' = IF failure.step # 0
                  THEN [failure EXCEPT !.after = @ + 1]
                  ELSE [failure EXCEPT !.step = setupPc]
    /\ UNCHANGED setupPc

\* a call returning ok: VK_CHECK_RESULT aborts on an error, a call whose
\* result is discarded lets prepare() go on
Return(ok) ==
    IF ok \/ ~CurrentStep.checked
    THEN Continue(~ok) /\ UNCHANGED setupStatus
    ELSE Abort

\* vkCreateImage, vkAllocateMemory, vkCreateImageView, vkCreateRenderPass,
\* vkCreateFramebuffer, createBuffer, vkCreateDescriptorSetLayout,
\* vkCreatePipelineLayout
CreateObject ==
    /\ At("create")
    /\ \E ok \in BOOLEAN :
          /\ live' = IF ok THEN live \cup CurrentStep.obj ELSE live
          /\ Return(ok)
    /\ UNCHANGED <<features, texFormat, textures, pipelineState, pipelines,
                   descriptorPool, genVars, prepVars, frameVars>>

\* vkBindImageMemory (lines 214, 259): the result is not looked at
BindImageMemory ==
    /\ At("bindMemory")
    /\ \E ok \in BOOLEAN : Return(ok)
    /\ UNCHANGED <<features, live, texFormat, textures, pipelineState,
                   pipelines, descriptorPool, genVars, prepVars, frameVars>>

\* uniformBuffers.scene.map(), vkBeginCommandBuffer, vkEndCommandBuffer
CheckedCall ==
    /\ At("call")
    /\ \E ok \in BOOLEAN : Return(ok)
    /\ UNCHANGED <<features, live, texFormat, textures, pipelineState,
                   pipelines, descriptorPool, genVars, prepVars, frameVars>>

\* models.*.loadFromFile (lines 496-499)
LoadModel ==
    /\ At("load")
    /\ live' = live \cup CurrentStep.obj
    /\ Continue(FALSE)
    /\ UNCHANGED <<setupStatus, features, texFormat, textures, pipelineState,
                   pipelines, descriptorPool, genVars, prepVars, frameVars>>

\* loadAssets(), lines 505-519: the first supported family of BC, ASTC LDR,
\* ETC2; exitFatal when there is none
SelectTextureFormat ==
    /\ At("selectFormat")
    /\ IF "BC" \in features
       THEN texFormat' = "BC" /\ Continue(FALSE) /\ UNCHANGED setupStatus
       ELSE IF "ASTC_LDR" \in features
       THEN texFormat' = "ASTC_LDR" /\ Continue(FALSE)
            /\ UNCHANGED setupStatus
       ELSE IF "ETC2" \in features
       THEN texFormat' = "ETC2" /\ Continue(FALSE) /\ UNCHANGED setupStatus
       ELSE /\ setupStatus' = "halted"
            /\ UNCHANGED <<texFormat, setupPc, failure>>
    /\ UNCHANGED <<features, live, textures, pipelineState, pipelines,
                   descriptorPool, genVars, prepVars, frameVars>>

\* textures.*.loadFromFile (lines 521-524)
LoadTexture ==
    /\ At("loadTexture")
    /\ LET format == IF CurrentStep.arg.format = "texFormat"
                     THEN texFormat
                     ELSE CurrentStep.arg.format
       IN  textures' = Append(textures,
                              [obj |-> CurrentStep.obj, format |-> format])
    /\ live' = live \cup CurrentStep.obj
    /\ Continue(FALSE)
    /\ UNCHANGED <<setupStatus, features, texFormat, pipelineState,
                   pipelines, descriptorPool, genVars, prepVars, frameVars>>

\* vkDestroyBuffer and vkFreeMemory of the staging buffer (lines 859-860)
DestroyObject ==
    /\ At("destroy")
    /\ live' = live \ CurrentStep.obj
    /\ Continue(FALSE)
    /\ UNCHANGED <<setupStatus, features, texFormat, textures, pipelineState,
                   pipelines, descriptorPool, genVars, prepVars, frameVars>>

\* assignments to the state pipelineCreateInfo points to
SetPipelineState ==
    /\ At("set")
    /\ pipelineState' =
          [f \in DOMAIN pipelineState |->
              IF f \in DOMAIN CurrentStep.arg
              THEN CurrentStep.arg[f]
              ELSE pipelineState[f]]
    /\ Continue(FALSE)
    /\ UNCHANGED <<setupStatus, features, live, texFormat, textures,
                   pipelines, descriptorPool, genVars, prepVars, frameVars>>

\* what a pipeline is created from: the state members as they are at the
\* call, and the descriptors the counts select
PipelineSnapshot(name, state) ==
    [name |-> name,
     cullMode |-> state.cullMode,
     depthTestEnable |-> state.depthTestEnable,
     depthWriteEnable |-> state.depthWriteEnable,
     depthCompareOp |-> state.depthCompareOp,
     bindings |-> SubSeq(bindingDescriptions, 1,
                         state.vertexBindingDescriptionCount),
     attributes |-> SubSeq(attributeDescriptions, 1,
                           state.vertexAttributeDescriptionCount)]

\* vkCreateGraphicsPipelines (lines 732, 740, 748, 756, 766)
CreatePipeline ==
    /\ At("createPipeline")
    /\ \E ok \in BOOLEAN :
          /\ live' = IF ok THEN live \cup CurrentStep.obj ELSE live
          /\ pipelines' =
                IF ok
                THEN Append(pipelines,
                            PipelineSnapshot(CurrentStep.arg.name,
                                             pipelineState))
                ELSE pipelines
          /\ Return(ok)
    /\ UNCHANGED <<features, texFormat, textures, pipelineState,
                   descriptorPool, genVars, prepVars, frameVars>>

\* vkCreateDescriptorPool (line 542)
CreateDescriptorPool ==
    /\ At("createPool")
    /\ \E ok \in BOOLEAN :
          /\ live' = IF ok THEN live \cup CurrentStep.obj ELSE live
          /\ descriptorPool' =
                IF ok
                THEN [created |-> TRUE,
                      maxSets |-> CurrentStep.arg.maxSets,
                      uniformBuffer |-> CurrentStep.arg.uniformBuffer,
                      imageSampler |-> CurrentStep.arg.imageSampler,
                      sets |-> {}]
                ELSE descriptorPool
          /\ Return(ok)
    /\ UNCHANGED <<features, texFormat, textures, pipelineState, pipelines,
                   genVars, prepVars, frameVars>>

\* the pool can give out one more set of the layout
PoolHasRoom(pool) ==
    LET n == Cardinality(pool.sets) + 1
    IN  /\ n <= pool.maxSets
        /\ n * SetLayoutBindings.uniformBuffer <= pool.uniformBuffer
        /\ n * SetLayoutBindings.imageSampler <= pool.imageSampler

\* vkAllocateDescriptorSets (lines 584, 592, 600, 608): fails when the pool
\* is exhausted, and may fail for other reasons
AllocateDescriptorSet ==
    /\ At("allocateSet")
    /\ \E ok \in BOOLEAN :
          LET done == ok /\ PoolHasRoom(descriptorPool)
          IN  /\ descriptorPool' =
                    IF done
                    THEN [descriptorPool EXCEPT
                             !.sets = @ \cup {CurrentStep.arg.name}]
                    ELSE descriptorPool
              /\ Return(done)
    /\ UNCHANGED <<features, live, texFormat, textures, pipelineState,
                   pipelines, genVars, prepVars, frameVars>>

\* prepare(), line 971: prepared = true
SetPrepared ==
    /\ At("setPrepared")
    /\ prepared' = TRUE
    /\ setupStatus' = "prepared"
    /\ Continue(FALSE)
    /\ UNCHANGED <<features, live, texFormat, textures, pipelineState,
                   pipelines, descriptorPool, paused, frameTimer, camera,
                   uboVS, light, mapped, frame, genVars, prepVars>>

\* what ~VulkanExample() destroys (lines 144-168)
DestructorDestroys ==
    Pipeline("instancedRocksVkPipeline") \cup Pipeline("planetVkPipeline")
    \cup Pipeline("lightVkPipeline") \cup Pipeline("constructVkPipeline")
    \cup Pipeline("starfieldVkPipeline")
    \cup {H("pipelineLayout"), H("descriptorSetLayout")}
    \cup Buffer("instanceBuffer")
    \cup Model("rockModel") \cup Model("planetModel")
    \cup Model("lightModel") \cup Model("constructModel")
    \cup Texture("rocksTex2DArr") \cup Texture("planetTex2D")
    \cup Texture("lightTex2D") \cup Texture("constructTex2D")
    \cup Buffer("uniformBuffers.scene")

\* ~VulkanExample()
Destructor ==
    /\ setupStatus = "prepared"
    /\ live' = live \ DestructorDestroys
    /\ setupStatus' = "destroyed"
    /\ UNCHANGED <<setupPc, features, texFormat, textures, pipelineState,
                   pipelines, descriptorPool, failure, genVars, prepVars,
                   frameVars>>

---------------------------------------------------------------------------
(***************************************************************************)
(* The specifications.                                                     *)
(***************************************************************************)
InitGen ==
    /\ \E k \in 1..MaxRings, l \in 1..MaxLayerCount :
          \E n \in k..MaxInstanceCount : GenInit(n, k, l)
    /\ PrepIdle
    /\ FrameIdle
    /\ SetupIdle

NextGen ==
    \/ ResizeInstanceData
    \/ GenerateInstance
    \/ CreateInstanceBuffers
    \/ CopyInstanceData
    \/ ExecuteCopy
    \/ CompleteCopy
    \/ FlushReturns
    \/ DestroyStagingBuffer

SpecGen == InitGen /\ [][NextGen]_vars

Init ==
    /\ \E c \in SampleCountMasks, d \in SampleCountMasks,
          n \in 1..MaxSwapChainImages, e \in Extents : PrepInit(c, d, n, e)
    /\ GenIdle
    /\ FrameIdle
    /\ SetupIdle

Next ==
    \/ SelectSampleCount
    \/ SetupRenderPass
    \/ SetupFrameBuffer
    \/ BuildCommandBuffers
    \/ WindowResize

Spec == Init /\ [][Next]_vars

InitFrame ==
    /\ \E ft \in FrameDeltas : FrameInit(ft)
    /\ GenIdle
    /\ PrepIdle
    /\ SetupIdle

NextFrame ==
    \/ PrepareUniformBuffers
    \/ FinishPrepare
    \/ Render
    \/ ViewChanged
    \/ TogglePause
    \/ EndFrame

SpecFrame == InitFrame /\ [][NextFrame]_vars

\* Runs with a constant frame time: prepared, not paused, the light
\* intensity still 0, the frame time one of SteadyDeltas in every frame.
InitLight ==
    /\ \E ft \in SteadyDeltas :
          /\ prepared = TRUE
          /\ paused = FALSE
          /\ frameTimer = ft
          /\ camera = InitialCamera
          /\ uboVS = InitialUboVS
          /\ light = InitialLight
          /\ mapped = [created |-> TRUE, data |-> InitialUboVS]
          /\ frame = NewFrame(0, FALSE, 0)
    /\ GenIdle
    /\ PrepIdle
    /\ SetupIdle

NextLight == SteadyFrame

SpecLight == InitLight /\ [][NextLight]_vars

\* prepare() call by call on a device supporting any set of compression
\* families, with any result of each call, then the destructor
InitSetup ==
    /\ \E f \in SUBSET CompressionFamilies : SetupInit(f)
    /\ \E n \in 1..MaxSwapChainImages :
          PrepInit(VK_SAMPLE_COUNT_1_BIT + VK_SAMPLE_COUNT_4_BIT,
                   VK_SAMPLE_COUNT_1_BIT + VK_SAMPLE_COUNT_4_BIT,
                   n, <<1280, 720>>)
    /\ GenIdle
    /\ FrameIdle

NextSetup ==
    \/ CreateObject
    \/ BindImageMemory
    \/ CheckedCall
    \/ LoadModel
    \/ SelectTextureFormat
    \/ LoadTexture
    \/ DestroyObject
    \/ SetPipelineState
    \/ CreatePipeline
    \/ CreateDescriptorPool
    \/ AllocateDescriptorSet
    \/ SetPrepared
    \/ Destructor

SpecSetup == InitSetup /\ [][NextSetup]_vars

---------------------------------------------------------------------------
(***************************************************************************)
(* Claims about prepareInstanceData (checked under SpecGen).               *)
(***************************************************************************)
\* the loop has been left: instanceData is what the upload is handed
Generated == genPc \in {"copy", "flush", "destroy", "done"}

\* the number of records the loop assigned
Filled == Cardinality({i \in DOMAIN writes : writes[i] > 0})

FilledExpected == instanceCount - (instanceCount % Len(rings))

\* C1 as stated: when the ring count does not divide the instance count,
\* the sequence handed to the upload has floor(N/K)*K elements, not N.
C1_UploadHasFloorRecords ==
    (Generated /\ instanceCount % Len(rings) # 0)
        => Len(instanceData) = FilledExpected

\* C1 amended: when the ring count does not divide the instance count, the
\* loop assigns exactly floor(N/K)*K records, and the sequence handed to
\* the upload still has N elements: the N - floor(N/K)*K records after the
\* assigned ones are left value-initialised.  For N = 2048 and the six
\* rings of the program that is 2046 assigned records out of 2048.
C1_FloorRecordsFilledOfN ==
    /\ numInChunk(INSTANCE_COUNT, Len(RingList)) * Len(RingList) = 2046
    /\ (Generated /\ instanceCount % Len(rings) # 0) =>
          /\ Filled = FilledExpected
          /\ Filled < instanceCount
          /\ Len(instanceData) = instanceCount
          /\ \A i \in DOMAIN instanceData :
                i > FilledExpected => instanceData[i] = DefaultInstanceData

C1_Witness ==
    /\ genPc = "done"
    /\ instanceCount % Len(rings) # 0
    /\ Filled >= 2
    /\ Filled < Len(instanceData)

\* the ring the record at (1-based) position i was generated for
RingOf(i) == rings[((i - 1) \div numInChunk(instanceCount, Len(rings))) + 1]

C3_TexIndexBelowLayerCount ==
    \A i \in DOMAIN instanceData :
        writes[i] > 0 =>
            /\ instanceData[i].texIndex >= 0
            /\ instanceData[i].texIndex < layerCount

\* C4: the byte size used for the staging buffer, the device-local buffer
\* and the copy region is (number of records of the generated sequence)
\* times (size of one record).
C4_BufferSizeIsRecordsTimesSize ==
    /\ Generated =>
          /\ instanceBuffer.size = Len(instanceData) * SizeofInstanceData
          /\ stagingBuffer.size = Len(instanceData) * SizeofInstanceData
    /\ genPc \in {"flush", "destroy", "done"} =>
          copyRegion.size = Len(instanceData) * SizeofInstanceData

C4_Witness ==
    /\ genPc = "done"
    /\ Len(instanceData) = MaxInstanceCount
    /\ copyRegion.size = MaxInstanceCount * SizeofInstanceData
    /\ stagingBuffer.buffer = "destroyed"

\* the staging buffer or its memory has been released
StagingReleased ==
    stagingBuffer.buffer = "destroyed" \/ stagingBuffer.memory = "freed"

\* C21: the staging buffer and its memory are released only after the
\* one-shot copy command buffer has completed on the GPU, the host waiting
\* for it inside flushCommandBuffer, never while the copy is pending or
\* executing; the device-local instance buffer is written by that copy and
\* by nothing else, so that after the upload it holds the generated records
\* and is not written again.
C21_StagingReleasedAfterCopyCompleted ==
    /\ StagingReleased => copyCmd = "completed"
    /\ copyCmd \in {"pending", "executing"} =>
          /\ genPc = "flush"
          /\ stagingBuffer.buffer = "created"
          /\ stagingBuffer.memory = "allocated"
    /\ deviceLocal.writes <= 1
    /\ deviceLocal.writes = 1 <=> copyCmd = "completed"
    /\ copyCmd = "completed" => deviceLocal.data = instanceData

\* the upload is over: the copy completed, the staging buffer was released
\* after it, the device-local buffer holds the records, written once
C21_Witness ==
    /\ genPc = "done"
    /\ copyCmd = "completed"
    /\ StagingReleased
    /\ deviceLocal.writes = 1
    /\ Len(deviceLocal.data) = instanceCount
    /\ Filled >= 2

\* the instance count of the instanced draw and of the overlay text: the
\* macro INSTANCE_COUNT, which also sized instanceData (lines 486, 997, 777)
DrawnInstanceCount == instanceCount

\* C22: every instance record the instanced-rocks draw consumes was
\* written by the placement loop: the instance count of the draw equals
\* the number of records the loop filled, and none of the records drawn is
\* a default-initialised one.
C22_DrawnRecordsAllGenerated ==
    copyCmd = "completed" =>
        /\ DrawnInstanceCount = Filled
        /\ \A i \in 1..DrawnInstanceCount :
              /\ i \in DOMAIN deviceLocal.data
              /\ deviceLocal.data[i] # DefaultInstanceData

\* the loop is about to execute its body
InLoopBody ==
    /\ genPc = "loop"
    /\ instIdInChunk < numInChunk(instanceCount, Len(rings))
    /\ ringId < Len(rings)

\* the rings (1-based) whose bounds hold the record's squared radius; the
\* rings of the list do not overlap
RingsHolding(rec) ==
    {r \in 1..Len(rings) :
        /\ ToFloat(rings[r][1] * rings[r][1]) <= rec.rho2
        /\ rec.rho2 <= ToFloat(rings[r][2] * rings[r][2])}

---------------------------------------------------------------------------
(***************************************************************************)
(* Claims about prepare (checked under Spec).                              *)
(***************************************************************************)
\* the commands the claim C5 lists: render pass begin and end, viewport,
\* scissor, the pipeline binds (which name the draw group) and the draws
IsListed(c) ==
    c.op \in {"vkCmdBeginRenderPass", "vkCmdSetViewport", "vkCmdSetScissor",
              "vkCmdBindPipeline", "vkCmdDraw", "vkCmdDrawIndexed",
              "vkCmdEndRenderPass"}

\* what C5 says of a command: its kind, for a pipeline bind the pipeline,
\* for a draw the vertex count (non-indexed) and the instance count
Shape(c) ==
    CASE c.op = "vkCmdBindPipeline" -> <<c.op, c.obj, 0, 0>>
      [] c.op = "vkCmdDraw"         -> <<c.op, "", c.a, c.b>>
      [] c.op = "vkCmdDrawIndexed"  -> <<c.op, "", 0, c.b>>
      [] OTHER                      -> <<c.op, "", 0, 0>>

Shapes(cb) ==
    LET listed == SelectSeq(cb, IsListed)
    IN  [j \in DOMAIN listed |-> Shape(listed[j])]

C5_Expected ==
    << <<"vkCmdBeginRenderPass", "", 0, 0>>,
       <<"vkCmdSetViewport", "", 0, 0>>,
       <<"vkCmdSetScissor", "", 0, 0>>,
       <<"vkCmdBindPipeline", "starfieldVkPipeline", 0, 0>>,
       <<"vkCmdDraw", "", 4, 1>>,
       <<"vkCmdBindPipeline", "planetVkPipeline", 0, 0>>,
       <<"vkCmdDrawIndexed", "", 0, 1>>,
       <<"vkCmdBindPipeline", "lightVkPipeline", 0, 0>>,
       <<"vkCmdDrawIndexed", "", 0, 1>>,
       <<"vkCmdBindPipeline", "constructVkPipeline", 0, 0>>,
       <<"vkCmdDrawIndexed", "", 0, 1>>,
       <<"vkCmdBindPipeline", "instancedRocksVkPipeline", 0, 0>>,
       <<"vkCmdDrawIndexed", "", 0, INSTANCE_COUNT>>,
       <<"vkCmdEndRenderPass", "", 0, 0>> >>

\* C5: once built, every swapchain image's command buffer is: begin render
\* pass (on that image's frame buffer), set viewport, set scissor, then the
\* groups starfield, planet, light, construct, instanced-rocks in this
\* order with one draw each (4 vertices non-indexed; indexed with instance
\* count 1 three times; indexed with instance count INSTANCE_COUNT), then
\* end render pass.
C5_CommandSequence ==
    prepPc = "prepared" =>
        \A i \in 1..swapChainImageCount :
            /\ i \in DOMAIN drawCmdBuffers
            /\ Shapes(drawCmdBuffers[i]) = C5_Expected
            /\ drawCmdBuffers[i][1] =
                  Cmd("vkCmdBeginRenderPass", "frameBuffers", i - 1, 0)

C5_Witness ==
    /\ prepPc = "prepared"
    /\ swapChainImageCount = MaxSwapChainImages
    /\ Len(drawCmdBuffers[MaxSwapChainImages]) > Len(C5_Expected)
    /\ Shapes(drawCmdBuffers[MaxSwapChainImages])[13][4] = 2048

C7_RenderPassAttachments ==
    renderPassCreated =>
        LET a == renderPass.attachments
        IN  /\ Len(a) = 4
            /\ a[1].format = "colorFormat" /\ a[1].samples = sampleCount
            /\ a[1].loadOp = "CLEAR" /\ a[1].storeOp = "DONT_CARE"
            /\ a[2].format = "colorFormat"
            /\ a[2].samples = VK_SAMPLE_COUNT_1_BIT
            /\ a[2].storeOp = "STORE"
            /\ a[2].finalLayout = "PRESENT_SRC_KHR"
            /\ a[3].format = "depthFormat" /\ a[3].samples = sampleCount
            /\ a[3].loadOp = "CLEAR" /\ a[3].storeOp = "DONT_CARE"
            /\ a[4].format = "depthFormat"
            /\ a[4].samples = VK_SAMPLE_COUNT_1_BIT
            /\ a[4].storeOp = "STORE"
            /\ Len(renderPass.subpasses) = 1
            /\ renderPass.subpasses[1].colorAttachmentCount = 1
            /\ renderPass.subpasses[1].pColorAttachments = <<0>>
            /\ renderPass.subpasses[1].pResolveAttachments = <<1>>
            /\ renderPass.subpasses[1].pDepthStencilAttachment = 2

C7_Witness ==
    /\ renderPassCreated
    /\ sampleCount = VK_SAMPLE_COUNT_8_BIT
    /\ renderPass.attachments[3].samples = VK_SAMPLE_COUNT_8_BIT
    /\ prepPc = "prepared"

\* the largest sample count both masks hold
LargestCommonSampleCount(color, depth) ==
    CHOOSE b \in SampleCountBits :
        /\ HasBit(color, b) /\ HasBit(depth, b)
        /\ \A c \in SampleCountBits :
              (HasBit(color, c) /\ HasBit(depth, c)) => c <= b

\* C8: the sample count chosen at prepare time is the largest single sample
\* count supported by both the color and the depth frame buffer attachments.
C8_LargestCommonSampleCount ==
    prepPc # "getMaxUsableSampleCount" =>
        sampleCount = LargestCommonSampleCount(framebufferColorSampleCounts,
                                               framebufferDepthSampleCounts)

---------------------------------------------------------------------------
(***************************************************************************)
(* Claims about the frame loop (SpecFrame).                                *)
(***************************************************************************)
\* a frame that was drawn and in which playback was never paused
UnpausedRenderedFrame ==
    /\ frame.drawn
    /\ ~frame.pausedSeen

\* C9: in every rendered frame in which playback is not paused, the
\* phases, the light intensity and the light position are advanced exactly
\* once, whatever view-change events the frame delivers, and the scene
\* uniform is written once.
C9_AdvancedOncePerFrame ==
    UnpausedRenderedFrame => (frame.advances = 1 /\ frame.uboWrites = 1)

\* C10: every advance of the phases and of the light physics, from render,
\* from viewChanged and from the first update of prepareUniformBuffers,
\* uses a frame time of at most 0.1.
C10_AdvanceDeltaClamped == frame.maxDelta <= FrameTimerLimit
---------------------------------------------------------------------------
(***************************************************************************)
(* Claims about the light intensity in steady runs (SpecLight).            *)
(***************************************************************************)
\* the target intensity as a float
TargetIntensity == FloatOf(LIGHT_INTENSITY, 0)

\* two units in the last place of the target (2^6 <= 70 < 2^7)
TwoUlpOfTarget == FloatOf(1, 8 - FloatPrecision)

\* the intensity no longer changes under further frames
IntensitySettled(x) == LightIntensityStep(x, frameTimer) = x

\* C11 as stated: with a constant frame time in (0, 0.1] the intensity
\* sequence from 0 never decreases, never exceeds the target, and after a
\* bounded number of frames is within a fixed tolerance of the target
\* (here two units in the last place of the target).
C11_MonotoneBelowTargetConverges ==
    [][/\ FLeq(uboVS.lightInt, uboVS.lightInt')
       /\ FLeq(uboVS.lightInt', TargetIntensity)
       /\ frame'.n = MaxLightFrames =>
             FLeq(TargetIntensity, FAdd(uboVS.lightInt', TwoUlpOfTarget))]_vars

\* C11 amended: with a constant frame time in (0, 0.1] the intensity
\* sequence from 0 never decreases and stops changing after a bounded
\* number of frames; the value it stops at is a fixed point of the rounded
\* update, which need not be the target and may lie above it.
C11_MonotoneAndSettles ==
    [][/\ FLeq(uboVS.lightInt, uboVS.lightInt')
       /\ frame'.n = MaxLightFrames => IntensitySettled(uboVS.lightInt')]_vars

\* a run has settled above the target
C11_Witness ==
    /\ frame.n = MaxLightFrames
    /\ IntensitySettled(uboVS.lightInt)
    /\ ~FLeq(uboVS.lightInt, TargetIntensity)
---------------------------------------------------------------------------
(***************************************************************************)
(* Claims about the bindings in force at each draw (Spec).                 *)
(***************************************************************************)
\* the object most recently bound before command j of cb by a command op
\* (for vertex buffers: at the given binding), "none" when there is none
LastBound(cb, j, op, binding) ==
    LET ks == {k \in 1..(j - 1) : cb[k].op = op /\ cb[k].a = binding}
    IN  IF ks = {} THEN "none"
        ELSE cb[CHOOSE k \in ks : \A l \in ks : l <= k].obj

\* the bindings in force at command j
BoundAt(cb, j) ==
    [pipeline |-> LastBound(cb, j, "vkCmdBindPipeline", 0),
     set      |-> LastBound(cb, j, "vkCmdBindDescriptorSets", 0),
     vertex   |-> LastBound(cb, j, "vkCmdBindVertexBuffers",
                            VERTEX_BUFFER_BIND_ID),
     instance |-> LastBound(cb, j, "vkCmdBindVertexBuffers",
                            INSTANCE_BUFFER_BIND_ID),
     index    |-> LastBound(cb, j, "vkCmdBindIndexBuffer", 0)]

IsDraw(c) == c.op \in {"vkCmdDraw", "vkCmdDrawIndexed"}

\* what each draw group owns; starfieldSet is the descriptor set expected
\* at the starfield draw
GroupBindings(starfieldSet) ==
    { [pipeline |-> "starfieldVkPipeline", set |-> starfieldSet,
       vertex |-> "none", instance |-> "none", index |-> "none"],
      [pipeline |-> "planetVkPipeline", set |-> "planetVkDescrSet",
       vertex |-> "planetModel.vertices", instance |-> "none",
       index |-> "planetModel"],
      [pipeline |-> "lightVkPipeline", set |-> "lightVkDescrSet",
       vertex |-> "lightModel.vertices", instance |-> "none",
       index |-> "lightModel"],
      [pipeline |-> "constructVkPipeline", set |-> "constructVkDescrSet",
       vertex |-> "constructModel.vertices", instance |-> "none",
       index |-> "constructModel"],
      [pipeline |-> "instancedRocksVkPipeline",
       set |-> "instancedRocksVkDescrSet",
       vertex |-> "rockModel.vertices",
       instance |-> "instanceBuffer.buffer", index |-> "rockModel"] }

DrawsUse(groups) ==
    prepPc = "prepared" =>
        \A i \in DOMAIN drawCmdBuffers :
            \A j \in DOMAIN drawCmdBuffers[i] :
                IsDraw(drawCmdBuffers[i][j]) =>
                    BoundAt(drawCmdBuffers[i], j) \in groups

\* C16 as stated: at every draw the bound pipeline, descriptor set, vertex
\* buffers and index buffer are those of one draw group, the starfield draw
\* having no descriptor set, vertex buffer or index buffer bound.
C16_DrawsUseOwnBindings == DrawsUse(GroupBindings("none"))

\* C16 amended: at every draw the bound pipeline, descriptor set, vertex
\* buffers and index buffer are those of one draw group, except that the
\* starfield draw, which owns no descriptor set, is issued with the planet
\* group's descriptor set bound (and no vertex or index buffer); the
\* instanced-rocks draw has the rock mesh at binding 0 and the instance
\* buffer at binding 1.
C16_DrawsUseOwnBindingsStarfieldPlanetSet ==
    DrawsUse(GroupBindings("planetVkDescrSet"))

C16_Witness ==
    /\ prepPc = "prepared"
    /\ \E j \in DOMAIN drawCmdBuffers[1] :
          /\ drawCmdBuffers[1][j].op = "vkCmdDraw"
          /\ BoundAt(drawCmdBuffers[1], j).set = "planetVkDescrSet"
    /\ \E j \in DOMAIN drawCmdBuffers[1] :
          /\ drawCmdBuffers[1][j].op = "vkCmdDrawIndexed"
          /\ BoundAt(drawCmdBuffers[1], j).instance = "instanceBuffer.buffer"

\* C19: frame buffer i has exactly the 4 attachments of the render-pass
\* order: the multisample colour view, swapchain image i's own view, the
\* multisample depth view, the single-sample depth-stencil view; 0, 2 and 3
\* are the same for all frame buffers.
C19_FrameBufferAttachments ==
    prepPc \in {"buildCommandBuffers", "prepared"} =>
        /\ Len(frameBuffers) = swapChainImageCount
        /\ \A i \in DOMAIN frameBuffers :
              /\ Len(frameBuffers[i]) = 4
              /\ frameBuffers[i][1] = View("multisampleTarget.color.view", 0)
              /\ frameBuffers[i][2] = View("swapChain.buffers.view", i - 1)
              /\ frameBuffers[i][3] = View("multisampleTarget.depth.view", 0)
              /\ frameBuffers[i][4] = View("depthStencil.view", 0)
              /\ \A j \in DOMAIN frameBuffers :
                    /\ frameBuffers[j][1] = frameBuffers[i][1]
                    /\ frameBuffers[j][3] = frameBuffers[i][3]
                    /\ frameBuffers[j][4] = frameBuffers[i][4]
                    /\ j # i => frameBuffers[j][2] # frameBuffers[i][2]

C19_Witness ==
    /\ prepPc = "prepared"
    /\ Len(frameBuffers) = MaxSwapChainImages
    /\ frameBuffers[MaxSwapChainImages][2] =
          View("swapChain.buffers.view", MaxSwapChainImages - 1)
---------------------------------------------------------------------------
(***************************************************************************)
(* Claims about pausing (SpecFrame).                                       *)
(***************************************************************************)
\* what the animation advances: the two phases, the light intensity, the
\* light position and the light's position and velocity
Animation == <<uboVS.locSpeed, uboVS.globSpeed, uboVS.lightInt,
               uboVS.lightPos, light>>

\* what a view change recomputes
ViewState == <<uboVS.view, uboVS.projection, uboVS.camPos>>

\* C20: while playback is paused neither render nor viewChanged changes
\* the phases, the light intensity, the light position or the light's
\* position and velocity; and render's update (viewChanged = false) leaves
\* the view matrix, the projection matrix and the camera position as they
\* are.
C20_PausedFreezesAnimation ==
    [][/\ paused => Animation' = Animation
       /\ (~frame.rendered /\ frame'.rendered) => ViewState' = ViewState]_vars

\* a paused frame in which a view change moved the camera and render drew,
\* without any advance
C20_Witness ==
    /\ paused
    /\ frame.n >= 1
    /\ frame.drawn
    /\ frame.viewEvents >= 1
    /\ frame.uboWrites >= 1
    /\ frame.advances = 0
    /\ camera # InitialCamera
    /\ uboVS.view = Derived("view", camera)

---------------------------------------------------------------------------
(***************************************************************************)
(* Claims about prepare() call by call and the destructor (checked under   *)
(* SpecSetup).                                                             *)
(***************************************************************************)
\* C12: a non-success result of a GPU object creation, allocation or
\* memory binding call during preparation aborts the process at that call:
\* no later preparation step runs and the prepared flag is never set.
C12_FailureAbortsAtTheCall ==
    failure.step # 0 =>
        /\ setupStatus = "aborted"
        /\ failure.after = 0
        /\ ~prepared

\* the multisample colour and depth images, their views and memory
MultisampleTargetObjects ==
    {H("multisampleTarget." \o t \o m) :
        t \in {"color", "depth"}, m \in {".image", ".view", ".memory"}}

\* the objects of the preparation that are to be gone at shutdown: the
\* multisample target, the five pipelines, the two layouts, the instance
\* buffer with its memory and the uniform buffer
PreparationObjects ==
    MultisampleTargetObjects
    \cup Pipeline("instancedRocksVkPipeline") \cup Pipeline("planetVkPipeline")
    \cup Pipeline("lightVkPipeline") \cup Pipeline("constructVkPipeline")
    \cup Pipeline("starfieldVkPipeline")
    \cup {H("pipelineLayout"), H("descriptorSetLayout")}
    \cup Buffer("instanceBuffer")
    \cup Buffer("uniformBuffers.scene")

\* C13: after the destructor has run, none of the GPU objects created
\* during preparation (multisample colour and depth images, their views and
\* memory, the five pipelines, pipeline layout, descriptor-set layout,
\* instance buffer and memory, uniform buffer) is still live.
C13_AllDestroyedAtShutdown ==
    setupStatus = "destroyed" => live \cap PreparationObjects = {}

\* C14: no texture is loaded with a format of a compression family the
\* device does not report as supported, and on a device supporting none of
\* the three families start-up halts before any texture is loaded.
C14_TexturesOnlyInSupportedFormats ==
    /\ \A i \in 1..Len(textures) : textures[i].format \in features
    /\ features \cap CompressionFamilies = {} =>
          /\ textures = <<>>
          /\ setupStatus \notin {"prepared", "destroyed"}

\* the five draw groups of the scene
DrawGroups == {"starfield", "planet", "light", "construct", "instancedRocks"}

\* the descriptor sets setupDescriptorSet allocates
AllocatedSets ==
    {SetupDescriptorSetSteps[i].arg.name :
        i \in 1..Len(SetupDescriptorSetSteps)}

\* the pool holds n sets and the descriptors of n sets of the layout
PoolSizedFor(n) ==
    /\ descriptorPool.maxSets = n
    /\ descriptorPool.uniformBuffer = n * SetLayoutBindings.uniformBuffer
    /\ descriptorPool.imageSampler = n * SetLayoutBindings.imageSampler

\* what was allocated fits the pool, and so does the allocation about to
\* be made
AllocationsWithinPool ==
    /\ Cardinality(descriptorPool.sets) <= descriptorPool.maxSets
    /\ Cardinality(descriptorPool.sets) * SetLayoutBindings.uniformBuffer
          <= descriptorPool.uniformBuffer
    /\ Cardinality(descriptorPool.sets) * SetLayoutBindings.imageSampler
          <= descriptorPool.imageSampler
    /\ At("allocateSet") => PoolHasRoom(descriptorPool)

\* C15, as stated: the descriptor pool is sized to exactly (number of draw
\* groups) x (1 uniform-buffer descriptor + 1 image-sampler descriptor),
\* the draw groups being the five groups starfield, planet, light,
\* construct and instanced rocks, and the allocations of setupDescriptorSet
\* never exceed the pool.
C15_PoolSizedForFiveDrawGroups ==
    descriptorPool.created =>
        /\ PoolSizedFor(Cardinality(DrawGroups))
        /\ AllocationsWithinPool

\* C15, amended: the descriptor pool is sized to exactly 4 x (1
\* uniform-buffer descriptor + 1 image-sampler descriptor), one set for
\* each of the four descriptor sets setupDescriptorSet allocates (instanced
\* rocks, planet, light, construct; the star field has none); the
\* allocations never exceed the pool, and a finished preparation has
\* allocated exactly these four.
C15_PoolSizedForFourDescriptorSets ==
    /\ descriptorPool.created =>
          /\ PoolSizedFor(4)
          /\ Cardinality(AllocatedSets) = 4
          /\ descriptorPool.sets \subseteq AllocatedSets
          /\ AllocationsWithinPool
    /\ prepared => descriptorPool.sets = AllocatedSets

\* a finished preparation: the pool was created and is used up by the four
\* sets
C15_Witness ==
    /\ setupStatus = "prepared"
    /\ descriptorPool.created
    /\ Cardinality(descriptorPool.sets) = 4
    /\ ~PoolHasRoom(descriptorPool)

\* the pipelines created so far, by name
PipelineNames == {pipelines[i].name : i \in 1..Len(pipelines)}

AllPipelines ==
    {"instancedRocksVkPipeline", "planetVkPipeline", "lightVkPipeline",
     "constructVkPipeline", "starfieldVkPipeline"}

\* C17: of the five pipelines created from the one shared state, only the
\* star field pipeline has back-face culling and depth write disabled; the
\* instanced-rocks, planet, light and construct pipelines are created with
\* back-face culling and depth write enabled; all five have the depth test
\* enabled with the less-or-equal comparison.
C17_OnlyStarfieldWithoutCullAndDepthWrite ==
    \A i \in 1..Len(pipelines) :
        LET p == pipelines[i]
        IN  /\ p.name \in AllPipelines
            /\ p.depthTestEnable
            /\ p.depthCompareOp = "LESS_OR_EQUAL"
            /\ IF p.name = "starfieldVkPipeline"
               THEN p.cullMode = "NONE" /\ ~p.depthWriteEnable
               ELSE p.cullMode = "BACK" /\ p.depthWriteEnable

\* all five pipelines exist, the shared state as the star field left it
C17_Witness ==
    /\ PipelineNames = AllPipelines
    /\ pipelineState.cullMode = "NONE"
    /\ ~pipelineState.depthWriteEnable

\* the attributes of p that read from the given binding
AttributesOf(p, binding) ==
    {i \in 1..Len(p.attributes) : p.attributes[i].binding = binding}

\* C18: when it is created, the instanced-rocks pipeline has 2 bindings
\* and 8 attributes (binding 0 per vertex with 4 attributes, binding 1 per
\* instance with 4 attributes); the planet, light and construct pipelines
\* have 1 binding and the first 4 attributes, all per vertex; the star
\* field pipeline has no binding and no attribute.
C18_VertexInputPerPipeline ==
    \A i \in 1..Len(pipelines) :
        LET p == pipelines[i]
        IN  CASE p.name = "instancedRocksVkPipeline" ->
                    /\ Len(p.bindings) = 2
                    /\ Len(p.attributes) = 8
                    /\ p.bindings[1] = [binding |-> 0, inputRate |-> "VERTEX"]
                    /\ p.bindings[2] =
                          [binding |-> 1, inputRate |-> "INSTANCE"]
                    /\ Cardinality(AttributesOf(p, 0)) = 4
                    /\ Cardinality(AttributesOf(p, 1)) = 4
              [] p.name = "starfieldVkPipeline" ->
                    /\ p.bindings = <<>>
                    /\ p.attributes = <<>>
              [] OTHER ->
                    /\ p.bindings = <<[binding |-> 0, inputRate |-> "VERTEX"]>>
                    /\ p.attributes = SubSeq(attributeDescriptions, 1, 4)
                    /\ AttributesOf(p, 0) = 1..4

\* all five pipelines exist, created from three different input states
C18_Witness ==
    /\ Len(pipelines) = 5
    /\ Len(pipelines[1].attributes) = 8
    /\ Len(pipelines[2].attributes) = 4
    /\ Len(pipelines[5].attributes) = 0
    /\ pipelineState.vertexBindingDescriptionCount = 0

---------------------------------------------------------------------------
(***************************************************************************)
(* The sample-count precondition (checked under Spec).                     *)
(***************************************************************************)
\* the sample count has been selected by getMaxUsableSampleCount
SampleCountSelected == prepPc # "getMaxUsableSampleCount"

\* the assertion's condition for the count selected from any two non-empty
\* masks
AssertionHoldsForAllMasks ==
    \A c \in 1..127, d \in 1..127 :
        /\ c >= getMaxUsableSampleCount(c, d)
        /\ d >= getMaxUsableSampleCount(c, d)

\* C24: for every pair of colour and depth sample-count masks a device
\* reports, with the sample count returned by getMaxUsableSampleCount the
\* assertion at the head of setupMultisampleTarget holds: preparation, and
\* every later set-up of the frame buffers, never ends on it.  The
\* function is also checked on every pair of non-empty masks.
C24_SampleCountAssertionHolds ==
    /\ SampleCountSelected => SampleCountSupported
    /\ prepPc # "aborted"
    /\ AssertionHoldsForAllMasks

\* the multisample target was set up, the assertion passed, with a sample
\* count above 1 on a device whose two masks differ and whose colour mask
\* does not hold the selected count
C24_Witness ==
    /\ prepPc = "prepared"
    /\ frameBuffers # <<>>
    /\ multisampleTarget.color.samples = sampleCount
    /\ sampleCount > VK_SAMPLE_COUNT_1_BIT
    /\ framebufferColorSampleCounts # framebufferDepthSampleCounts
    /\ ~HasBit(framebufferColorSampleCounts, sampleCount)

===========================================================================
